---- MODULE Spec2Model ----
(***************************************************************************)
(* GrandSlam authentication core of isideload.                             *)
(*                                                                         *)
(* The account of isideload/src/auth/apple_account.rs is modelled as a     *)
(* state machine whose steps are the suspension points of                  *)
(* AppleAccount::login, login_inner, trusted_device_2fa and sms_2fa.  The  *)
(* server responses, the anisette provider's answers and the results of    *)
(* the two-factor callback are inputs drawn from small sets.               *)
(***************************************************************************)
EXTENDS Integers, Sequences, FiniteSets, TLC

(***************************************************************************)
(* Bounds of the model and constants of the program.                       *)
(***************************************************************************)
MaxSnap == 2           \* number of distinct anisette snapshots the provider serves
MaxAttempts == 10      \* apple_account.rs:114

Snapshots == 1..MaxSnap
Cookies == {"c1", "c2"}    \* the cookies `c` the server hands out

(***************************************************************************)
(* Option<T> is a sequence of length at most one.                          *)
(***************************************************************************)
None == <<>>
Some(x) == <<x>>
IsSome(o) == Len(o) = 1

(***************************************************************************)
(* LoginState (apple_account.rs:36-43).                                    *)
(***************************************************************************)
LoggedIn == [tag |-> "LoggedIn", step |-> ""]
NeedsDevice2FA == [tag |-> "NeedsDevice2FA", step |-> ""]
NeedsSMS2FA == [tag |-> "NeedsSMS2FA", step |-> ""]
NeedsLogin == [tag |-> "NeedsLogin", step |-> ""]
NeedsExtraStep(s) == [tag |-> "NeedsExtraStep", step |-> s]

(***************************************************************************)
(* The URL bag is fetched once by GrandSlam::new; get_url fails on a key   *)
(* the bag does not hold.                                                  *)
(***************************************************************************)
UrlKeys == {"gsService", "trustedDeviceSecondaryAuth", "validateCode", "secondaryAuth"}
UrlBags == {UrlKeys} \cup {UrlKeys \ {k} : k \in UrlKeys}
get_url(bag, key) == key \in bag

(***************************************************************************)
(* The decrypted SPD is a dictionary; only the presence of the keys the    *)
(* account reads matters here.                                             *)
(***************************************************************************)
SpdKeys == {"adsid", "GsIdmsToken", "pet", "fn", "ln", "sk", "c"}
SpdValues ==
    {SpdKeys, {"adsid", "GsIdmsToken", "fn", "ln", "sk", "c"}, {"adsid", "pet", "fn"},
     {"GsIdmsToken", "sk"}}

\* Mutant: any SPD counts as holding the token
get_pet_any(s) == IsSome(s)

\* get_pet: Ok iff the SPD is present and holds t["com.apple.gs.idms.pet"].token
get_pet(s) == IsSome(s) /\ "pet" \in s[1]

\* build_2fa_headers: Ok iff the SPD is present and holds adsid and GsIdmsToken
build_2fa_headers(s) == IsSome(s) /\ "adsid" \in s[1] /\ "GsIdmsToken" \in s[1]

\* AnisetteData::get_client_provided_data: the fixed map plus the snapshot's headers
get_client_provided_data(snap) == [svct |-> "iCloud", headers |-> snap]


(***************************************************************************)
(* AnisetteDataGenerator::get_anisette_data, seen from the account: the    *)
(* set of outcomes for a generator whose cache is `cache`.  A cached       *)
(* snapshot that needs no refresh is returned as it is; otherwise the      *)
(* provider is asked, which fails (cache untouched) or serves a snapshot   *)
(* that becomes the cache.                                                 *)
(***************************************************************************)
get_anisette_data(cache) ==
    (IF IsSome(cache) THEN {[ok |-> TRUE, data |-> cache, value |-> cache]} ELSE {})
    \cup {[ok |-> FALSE, data |-> cache, value |-> None]}
    \cup {[ok |-> TRUE, data |-> Some(s), value |-> Some(s)] : s \in Snapshots}

(***************************************************************************)
(* Responses of the GrandSlam service to the `init` request, as            *)
(* plist_request, check_grandslam_error and the typed accessors see them.  *)
(*   http    "fail": transport error, error status, unreadable body,       *)
(*           unparsable plist or no `Response` dictionary                  *)
(*   ec      the error code of the response (0: none)                      *)
(*   fields  whether s, B, i, c and sp are all present with their types    *)
(*   sp      the selected protocol                                         *)
(*   c       the cookie                                                    *)
(*   b_valid whether process_reply accepts B                               *)
(***************************************************************************)
Protocols == {"s2k", "s2k_fo", "s2k_x"}
ErrorCodes == {0, -20101}
InitBodies ==
    [http : {"ok"}, ec : ErrorCodes, fields : BOOLEAN,
     sp : Protocols, c : Cookies, b_valid : BOOLEAN]
\* A failed exchange delivers no body: its fields are never looked at
InitNoBody ==
    [http |-> "fail", ec |-> 0, fields |-> FALSE, sp |-> "s2k", c |-> "c1", b_valid |-> FALSE]
InitResponses == InitBodies \cup {InitNoBody}

\* Mutant: the selected protocol is not checked
protocol_supported_unchecked(sp) == TRUE

\* apple_account.rs:425: the protocols the client can derive a password for
protocol_supported(sp) == sp = "s2k" \/ sp = "s2k_fo"

\* The step of login_inner at which an `init` response ends the run ("ok": none)
InitStage(r) ==
    IF r.http # "ok" THEN "plist_request"
    ELSE IF r.ec # 0 THEN "AuthWithMessage"
    ELSE IF ~r.fields THEN "ParseInit"
    ELSE IF ~protocol_supported(r.sp) THEN "UnsupportedProtocol"
    ELSE IF ~r.b_valid THEN "SrpProof"
    ELSE "ok"

(***************************************************************************)
(* Responses to the `complete` request.                                    *)
(*   m2      the server proof: valid, invalid or missing                   *)
(*   spd     the encrypted SPD: missing, undecryptable, unparsable, or ok  *)
(*           with the dictionary it decrypts to                            *)
(*   status  whether the response holds a Status dictionary                *)
(*   au      Status.au: absent, a string, or a value of another type       *)
(***************************************************************************)
M2Values == {"valid", "invalid", "missing"}
SpdPayloads ==
    {[kind |-> k, dict |-> {}] : k \in {"missing", "undecryptable", "unparsable"}}
    \cup {[kind |-> "ok", dict |-> d] : d \in SpdValues}
AuAbsent == [type |-> "absent", s |-> ""]
AuString(v) == [type |-> "string", s |-> v]
AuValues ==
    {AuAbsent, [type |-> "integer", s |-> ""]}
    \cup {AuString(v) : v \in {"trustedDeviceSecondaryAuth", "secondaryAuth",
                               "repair", "Repair", "otherStep"}}
\* `au` is a key of the Status dictionary: without Status there is no au
CompleteBodies ==
    {r \in [http : {"ok"}, ec : ErrorCodes, m2 : M2Values, spd : SpdPayloads,
            status : BOOLEAN, au : AuValues] : ~r.status => r.au = AuAbsent}
CompleteNoBody ==
    [http |-> "fail", ec |-> 0, m2 |-> "missing", spd |-> [kind |-> "missing", dict |-> {}],
     status |-> FALSE, au |-> AuAbsent]
CompleteResponses == CompleteBodies \cup {CompleteNoBody}

\* Mutant: the result of the verification is dropped
verify_server_ignored(m2) == TRUE

\* ClientVerifier::verify_server (apple_account.rs:476-478)
verify_server(m2) == m2 = "valid"

\* Mutant: the GrandSlam error check is left out of the complete exchange
CompleteStage_unchecked(r) ==
    IF r.http # "ok" THEN "plist_request"
    ELSE IF r.m2 = "missing" THEN "ParseComplete"
    ELSE IF ~verify_server(r.m2) THEN "NegotiationFailed"
    ELSE IF r.spd.kind = "missing" THEN "SpdMissing"
    ELSE IF r.spd.kind = "undecryptable" THEN "SpdDecrypt"
    ELSE IF r.spd.kind = "unparsable" THEN "SpdParse"
    ELSE IF ~r.status THEN "StatusMissing"
    ELSE "ok"

\* The step of login_inner at which a `complete` response ends the run ("ok": none)
CompleteStage(r) ==
    IF r.http # "ok" THEN "plist_request"
    ELSE IF r.ec # 0 THEN "AuthWithMessage"
    ELSE IF r.m2 = "missing" THEN "ParseComplete"
    ELSE IF ~verify_server(r.m2) THEN "NegotiationFailed"
    ELSE IF r.spd.kind = "missing" THEN "SpdMissing"
    ELSE IF r.spd.kind = "undecryptable" THEN "SpdDecrypt"
    ELSE IF r.spd.kind = "unparsable" THEN "SpdParse"
    ELSE IF ~r.status THEN "StatusMissing"
    ELSE "ok"

\* Mutant: the SPD is never stored on the account
spd_after_dropped(r, old) == old

\* Mutant: the SPD is stored as soon as it is in the response, before M2 is verified
spd_after_unverified(r, old) ==
    IF r.http = "ok" /\ r.ec = 0 /\ r.spd.kind = "ok" THEN Some(r.spd.dict) ELSE old

\* apple_account.rs:491: self.spd is assigned once the SPD has been parsed,
\* before the Status dictionary is looked up
spd_after(r, old) ==
    IF CompleteStage(r) \in {"StatusMissing", "ok"} THEN Some(r.spd.dict) ELSE old

\* Mutant: a failed run resets the login state
state_after_error_reset(old) == NeedsLogin

\* apple_account.rs:103-106, 149-152: the `?` returns from login before the
\* assignment to login_state, which keeps the value it had
state_after_error(old) == old

\* apple_account.rs:499-508: the login state a successful run returns
LoginStateOfAu(au) ==
    IF au.type = "string"
    THEN CASE au.s = "trustedDeviceSecondaryAuth" -> NeedsDevice2FA
           [] au.s = "secondaryAuth" -> NeedsSMS2FA
           [] au.s = "repair" -> LoggedIn
           [] OTHER -> NeedsExtraStep(au.s)
    ELSE LoggedIn


(***************************************************************************)
(* State.                                                                  *)
(*   login_state, spd   the account's fields                               *)
(*   data               the anisette generator's cached snapshot           *)
(*   url_bag            the keys of the GrandSlam URL bag                  *)
(*   pc                 the position of the login call ("idle": no call)   *)
(*   attempts           login's loop counter                               *)
(*   result, error      what the last login call returned                  *)
(*   anisette_data, cpd, c, code   locals of the running sub-operation     *)
(*   response, response2   of the last init and complete responses         *)
(*                      received: sp and c; M2 and, when the run           *)
(*                      succeeded, Status.au                               *)
(*   events             the requests sent and callbacks invoked by the     *)
(*                      sub-operation running or last run                  *)
(*   failed             a sub-operation of this call returned an error     *)
(*   m2_verified        some SRP run of this account verified M2           *)
(*   last_ok            the step of login that last succeeded in this call *)
(*   spd_received       some SRP run verified M2 and then decrypted and    *)
(*                      parsed the SPD of its response                     *)
(*   callbacks          invocations of the 2FA callback in this call       *)
(*   srp_runs, tfa_ok   SRP runs started and 2FA sub-flows succeeded in    *)
(*                      this call                                          *)
(*   call               the method called on the account since the last    *)
(*                      login, if any, and what it returned                *)
(*   state, file        the remote provider's AnisetteState (None: not yet *)
(*                      loaded) and the content of state.plist             *)
(*   readers, writer    the RwLock around the provider: the tasks holding  *)
(*                      a read guard, and the one holding the write guard  *)
(*   gpc, gdata, glast  per task, for its generator: the position of its   *)
(*                      get_anisette_data call, the cached snapshot, and   *)
(*                      what its last call saw and returned                *)
(*   client_info        the remote provider's cached AnisetteClientInfo    *)
(*   ipc, ilast         per task, the position of its get_client_info call *)
(*                      and what its last call returned                    *)
(*   irequests          requests sent to /v3/client_info so far            *)
(*   apptoken           the get_app_token call last made on a logged-in    *)
(*                      account: what it was given and what it did         *)
(*   roundtrip          the AnisetteState or state file last converted,    *)
(*                      and what the conversion and its inverse gave       *)
(*   storage            the SideloadingStorage in use: its backend, what   *)
(*                      it holds per key, the keys deleted and not stored  *)
(*                      since, and the operation last called on it         *)
(*   cert               the request_certificate call in progress or last   *)
(*                      made, with the certificates the team holds         *)
(*   ws                 the provisioning session in progress: what the     *)
(*                      client has sent and how many messages it received  *)
(*   runs               provisioning sessions opened so far (saturating)   *)
(*   last_run           how the last provisioning session ended, and what  *)
(*                      the client had sent in it if it succeeded          *)
(*   checked            the dictionary last given to                       *)
(*                      check_grandslam_error and what it returned         *)
(*   icloud_auth        the account of the icloud-auth crate               *)
(*                      (apple-private-apis/icloud-auth/src/client.rs),    *)
(*                      the older client of the same protocol: its SPD,    *)
(*                      the position and result of login_email_pass, the   *)
(*                      events of the run and the responses received       *)
(***************************************************************************)
VARIABLES login_state, spd, data, url_bag, pc, attempts, result, error,
          anisette_data, cpd, c, code, response, response2, events,
          failed, m2_verified, last_ok, spd_received, srp_runs, tfa_ok, callbacks,
          call, icloud_auth, checked,
          state, file, readers, writer, gpc, gdata, glast, ws, runs, last_run,
          client_info, ipc, ilast, irequests, apptoken, roundtrip, storage, cert,
          derivation

vars == <<login_state, spd, data, url_bag, pc, attempts, result, error,
          anisette_data, cpd, c, code, response, response2, events,
          failed, m2_verified, last_ok, spd_received, srp_runs, tfa_ok, callbacks,
          call, icloud_auth, checked,
          state, file, readers, writer, gpc, gdata, glast, ws, runs, last_run,
          client_info, ipc, ilast, irequests, apptoken, roundtrip, storage, cert,
          derivation>>

isideload == <<login_state, spd, data, url_bag, pc, attempts, result, error,
               anisette_data, cpd, c, code, response, response2, events,
               failed, m2_verified, last_ok, spd_received, srp_runs, tfa_ok,
               callbacks, call>>
\* What belongs to other components than the account
anisette == <<state, file, readers, writer, gpc, gdata, glast, ws, runs, last_run>>
\* What the operations use that are called on their own
info == <<client_info, ipc, ilast, irequests>>
apart == <<checked, info, apptoken, roundtrip, storage, cert, derivation>>
\* and what of it each of them leaves alone
apart_checked == <<info, apptoken, roundtrip, storage, cert, derivation>>
apart_info == <<checked, apptoken, roundtrip, storage, cert, derivation>>
apart_apptoken == <<checked, info, roundtrip, storage, cert, derivation>>
apart_roundtrip == <<checked, info, apptoken, storage, cert, derivation>>
apart_storage == <<checked, info, apptoken, roundtrip, cert, derivation>>
apart_cert == <<checked, info, apptoken, roundtrip, storage, derivation>>
apart_derivation == <<checked, info, apptoken, roundtrip, storage, cert>>
others == <<icloud_auth, apart, anisette>>
\* What no step of login touches
outside == <<others, call>>
account == <<login_state, spd>>
locals == <<anisette_data, cpd, c, code>>
history == <<response, response2, events, m2_verified, last_ok>>
counters == <<spd_received, srp_runs, tfa_ok, callbacks>>

\* One exchange with the server, or one invocation of the callback
Event(o, req_cpd, headers, cookie, security_code, ok) ==
    [o |-> o, cpd |-> req_cpd, headers |-> headers, c |-> cookie,
     code |-> security_code, ok |-> ok]

\* The tasks that call get_anisette_data, each on its own clone of the
\* generator (anisette/mod.rs:109-113: the clones share the provider)
Tasks == {"t1", "t2"}

\* The provisioning blobs the anisette server may hand out
Blobs == {"pb1", "pb2"}

\* No call of get_anisette_data has returned yet
NoResult == [elapsed |-> None, cached |-> FALSE, result |-> "none", value |-> None]

\* No method other than login has been called
NoCall ==
    [fn |-> "none", result |-> "none", error |-> "", sent |-> FALSE, ec |-> 0,
     decrypt |-> FALSE]

\* AppleAccount::new (apple_account.rs:77-84), AnisetteDataGenerator::new
\* (anisette/mod.rs:115-121) and the legacy client before its first call: every
\* field but the URL bag and the provider's state file
Fresh ==
    /\ login_state = NeedsLogin
    /\ spd = None
    /\ data = None
    /\ pc = "idle"
    /\ attempts = 0
    /\ result = "none"
    /\ error = ""
    /\ anisette_data = None
    /\ cpd = None
    /\ c = None
    /\ code = None
    /\ response = None
    /\ response2 = None
    /\ events = <<>>
    /\ failed = FALSE
    /\ m2_verified = FALSE
    /\ last_ok = "none"
    /\ spd_received = FALSE
    /\ srp_runs = 0
    /\ tfa_ok = 0
    /\ callbacks = 0
    /\ call = NoCall
    /\ checked = None
    /\ client_info = None
    /\ ipc = [t \in Tasks |-> "idle"]
    /\ ilast = [t \in Tasks |-> None]
    /\ irequests = 0
    /\ apptoken = None
    /\ roundtrip = None
    /\ storage = None
    /\ cert = None
    /\ derivation = None
    /\ state = None
    /\ readers = {}
    /\ writer = None
    /\ gpc = [t \in Tasks |-> "idle"]
    /\ gdata = [t \in Tasks |-> None]
    /\ glast = [t \in Tasks |-> NoResult]
    /\ ws = None
    /\ runs = 0
    /\ last_run = [result |-> "none", sent |-> {}]
    /\ icloud_auth = [pc |-> "idle", spd |-> None, result |-> "none", state |-> None,
                      c |-> None, events |-> <<>>, response |-> None, response2 |-> None]

\* keychain_identifier: [u8; 16] (remote_v3/state.rs:46)
IdentifierLen == 16

\* Byte strings: those that differ in their first byte only, of every length
\* up to one more than an identifier's
ByteStrings(lens) ==
    {[i \in 1..n |-> IF i = 1 THEN b ELSE 0] : n \in lens \ {0}, b \in 0..3}
        \cup (IF 0 \in lens THEN {<<>>} ELSE {})

\* rand::rng().random::<[u8; 16]>() (remote_v3/state.rs:57)
AllIdentifiers == ByteStrings({IdentifierLen})

\* The identifiers the provider draws where it runs next to its callers
Identifiers == {id \in AllIdentifiers : id[1] \in {1, 2}}

\* struct AnisetteState (remote_v3/state.rs:40-52)
AnisetteStates ==
    [keychain_identifier : AllIdentifiers, adi_pb : {None} \cup {Some(b) : b \in Blobs}]

\* A property list dictionary as a state file holds it: per key its data, or
\* None for a key the dictionary does not have
Documents ==
    [keychain_identifier :
         {None} \cup {Some(d) : d \in ByteStrings({0, IdentifierLen - 1, IdentifierLen,
                                                    IdentifierLen + 1})},
     adi_pb : {None} \cup {Some(b) : b \in Blobs}]

\* plist::to_file_xml of an AnisetteState (remote_v3/state.rs:9-21, 40-52):
\* keychain_identifier is written as data by bin_serialize; bin_serialize_opt
\* hands Option<Data> to the serializer, which writes the data of Some and
\* leaves the key of a None field out of the dictionary
to_file_xml(st) ==
    [keychain_identifier |-> Some(st.keychain_identifier), adi_pb |-> st.adi_pb]

\* remote_v3/state.rs:36-37: the conversion Vec<u8> -> [u8; 16] that
\* bin_deserialize_16 unwraps
identifier_len_ok(d) == Len(d) = IdentifierLen

\* plist::from_file as an AnisetteState (remote_v3/state.rs:23-52): no file or
\* no keychain_identifier is an error; bin_deserialize_16 unwraps the
\* conversion to [u8; 16] and panics on data of another length; adi_pb has a
\* deserialize_with function and no default, so a dictionary without the key
\* is an error (missing field)
from_file(f) ==
    IF f = None \/ f[1].keychain_identifier = None
    THEN [tag |-> "Err", state |-> None]
    ELSE IF ~identifier_len_ok(f[1].keychain_identifier[1])
    THEN [tag |-> "panic", state |-> None]
    ELSE IF f[1].adi_pb = None
    THEN [tag |-> "Err", state |-> None]
    ELSE [tag |-> "Ok",
          state |-> Some([keychain_identifier |-> f[1].keychain_identifier[1],
                          adi_pb |-> f[1].adi_pb])]

\* The state file of an earlier run, if there is one, and whatever else is
\* found at its path (remote_v3/mod.rs:157-166)
StateFiles ==
    {None} \cup
    {Some(d) : d \in {doc \in Documents :
        /\ doc.keychain_identifier # None => doc.keychain_identifier[1] # <<>>
        /\ doc.keychain_identifier # None => doc.keychain_identifier[1][1] = 1
        /\ doc.keychain_identifier # None =>
               Len(doc.keychain_identifier[1]) \in {IdentifierLen - 1, IdentifierLen}
        /\ doc.adi_pb \in {None, Some("pb1")}
        /\ doc.adi_pb = None => doc.keychain_identifier # None
        /\ doc.adi_pb = None => from_file(Some(doc)).tag = "Err"}}

\* the account before login: the URL bag is whatever the lookup endpoint
\* served; the anisette provider has not been used yet
Init ==
    /\ Fresh
    /\ url_bag \in UrlBags
    /\ file = None

ClearLocals ==
    /\ anisette_data' = None
    /\ cpd' = None
    /\ c' = None
    /\ code' = None

\* login returns: its frame and those of its sub-operations are gone
Return(res, err) ==
    /\ pc' = "idle"
    /\ result' = res
    /\ error' = err
    /\ attempts' = 0
    /\ ClearLocals

\* Mutant: a failed sub-operation is tried again by the loop
OnError_retry == [pc |-> "loop", result |-> "none"]

\* The `?` after each sub-operation of login: the error is returned to the
\* caller of login (apple_account.rs:106, 128, 136, 152)
OnError == [pc |-> "idle", result |-> "Err"]

\* A sub-operation returned the error `err`
Fail(err) ==
    /\ failed' = TRUE
    /\ pc' = OnError.pc
    /\ result' = OnError.result
    /\ error' = IF OnError.result = "Err" THEN err ELSE error
    /\ attempts' = IF OnError.pc = "idle" THEN 0 ELSE attempts
    /\ ClearLocals

(***************************************************************************)
(* AppleAccount::login (apple_account.rs:93-156)                           *)
(***************************************************************************)
\* login is called; its first sub-operation is an SRP run
LoginCall ==
    /\ pc = "idle"
    /\ pc' = "inner_anisette"
    /\ attempts' = 0
    /\ result' = "none"
    /\ error' = ""
    /\ failed' = FALSE
    /\ last_ok' = "none"
    /\ events' = <<>>
    /\ response' = None
    /\ response2' = None
    /\ srp_runs' = 0
    /\ tfa_ok' = 0
    /\ callbacks' = 0
    /\ ClearLocals
    /\ call' = NoCall
    /\ UNCHANGED <<account, data, url_bag, others, m2_verified, spd_received>>


\* Mutant: the loop is given two more passes
AttemptsExhausted_later(a) == a > MaxAttempts + 2

\* Mutant: the limit is compared off by one
AttemptsExhausted_late(a) == a > MaxAttempts + 1

\* apple_account.rs:113-119: the loop gives up once the counter passes the limit
AttemptsExhausted(a) == a > MaxAttempts

\* Mutant: a verified code is taken for a completed login
StateAfter2FA_LoggedIn == LoggedIn

\* apple_account.rs:130, 138: the state login sets after a 2FA sub-flow succeeded
StateAfter2FA == NeedsLogin

\* apple_account.rs:114-119
LoopAbort ==
    /\ pc = "loop"
    /\ AttemptsExhausted(attempts + 1)
    /\ Return("Err", "MaxLoginAttempts")
    /\ UNCHANGED <<account, data, url_bag, outside, history, counters, failed>>

\* apple_account.rs:121-124
LoopLoggedIn ==
    /\ pc = "loop"
    /\ ~AttemptsExhausted(attempts + 1)
    /\ login_state = LoggedIn
    /\ Return("Ok", "")
    /\ UNCHANGED <<account, data, url_bag, outside, history, counters, failed>>

\* apple_account.rs:125-126: enter trusted_device_2fa
LoopNeedsDevice2FA ==
    /\ pc = "loop"
    /\ ~AttemptsExhausted(attempts + 1)
    /\ login_state = NeedsDevice2FA
    /\ attempts' = attempts + 1
    /\ pc' = "td_anisette"
    /\ UNCHANGED <<account, data, url_bag, outside, history, counters, failed, result, error, locals>>

\* apple_account.rs:132-134: enter sms_2fa
LoopNeedsSMS2FA ==
    /\ pc = "loop"
    /\ ~AttemptsExhausted(attempts + 1)
    /\ login_state = NeedsSMS2FA
    /\ attempts' = attempts + 1
    /\ pc' = "sms_anisette"
    /\ UNCHANGED <<account, data, url_bag, outside, history, counters, failed, result, error, locals>>

\* apple_account.rs:140-146
LoopNeedsExtraStep ==
    /\ pc = "loop"
    /\ ~AttemptsExhausted(attempts + 1)
    /\ login_state.tag = "NeedsExtraStep"
    /\ IF get_pet(spd)
       THEN /\ login_state' = LoggedIn
            /\ attempts' = attempts + 1
            /\ last_ok' = "extra"
            /\ UNCHANGED <<spd, pc, result, error, locals>>
       ELSE /\ Return("Err", "ExtraStepRequired")
            /\ UNCHANGED <<account, last_ok>>
    /\ UNCHANGED <<data, url_bag, outside, response, response2, events, m2_verified,
                   counters, failed>>

\* apple_account.rs:147-153: run SRP again
LoopNeedsLogin ==
    /\ pc = "loop"
    /\ ~AttemptsExhausted(attempts + 1)
    /\ login_state = NeedsLogin
    /\ attempts' = attempts + 1
    /\ pc' = "inner_anisette"
    /\ UNCHANGED <<account, data, url_bag, outside, history, counters, failed, result, error, locals>>

(***************************************************************************)
(* The anisette retrieval that opens login_inner, trusted_device_2fa and   *)
(* sms_2fa (apple_account.rs:361-365, 188-192, 244-248).  It starts the    *)
(* sub-operation, so the record of its events starts empty.                *)
(***************************************************************************)
Anisette(at, next, err) ==
    /\ pc = at
    /\ \E o \in get_anisette_data(data) :
          /\ data' = o.data
          /\ IF o.ok
             THEN /\ anisette_data' = o.value
                  /\ pc' = next
                  /\ UNCHANGED <<attempts, result, error, failed, cpd, c, code>>
             ELSE Fail(err)
    /\ events' = <<>>
    /\ UNCHANGED <<account, url_bag, outside, response, response2, m2_verified, last_ok,
                   spd_received, tfa_ok, callbacks>>

InnerAnisette ==
    /\ Anisette("inner_anisette", "inner_init", "AnisetteLogin")
    /\ srp_runs' = srp_runs + 1

(***************************************************************************)
(* AppleAccount::login_inner (apple_account.rs:360-509)                    *)
(***************************************************************************)
\* apple_account.rs:376-390: the init request
req1(req_cpd) == [o |-> "init", cpd |-> Some(req_cpd), c |-> None]

\* Mutant: the cookie of the init response is left out of the complete request
req2_without_cookie(cookie, req_cpd) == [o |-> "complete", cpd |-> req_cpd, c |-> None]

\* apple_account.rs:445-456: the complete request, from the locals c and cpd
req2(cookie, req_cpd) == [o |-> "complete", cpd |-> req_cpd, c |-> cookie]

\* apple_account.rs:367-443: the init exchange and the SRP reply
SrpInit ==
    /\ pc = "inner_init"
    /\ IF ~get_url(url_bag, "gsService")
       THEN /\ Fail("UrlBag")
            /\ UNCHANGED <<response, events>>
       ELSE \E r \in InitResponses :
               LET req_cpd == get_client_provided_data(anisette_data[1]) IN
               /\ events' = Append(events, Event(req1(req_cpd).o, req1(req_cpd).cpd, None,
                                                 req1(req_cpd).c, None,
                                                 r.http = "ok" /\ r.ec = 0))
               /\ response' = Some([sp |-> r.sp, c |-> r.c, ec |-> r.ec])
               /\ IF InitStage(r) = "ok"
                  THEN /\ cpd' = Some(req_cpd)
                       /\ c' = Some(r.c)
                       /\ pc' = "inner_complete"
                       /\ UNCHANGED <<attempts, result, error, failed, anisette_data, code>>
                  ELSE Fail(InitStage(r))
    /\ UNCHANGED <<account, data, url_bag, outside, response2, m2_verified, last_ok, counters>>

\* apple_account.rs:445-508: the complete exchange, the server proof, the SPD
\* and the returned state, which login assigns to login_state (103, 149)
SrpComplete ==
    /\ pc = "inner_complete"
    /\ \E r \in CompleteResponses :
          /\ events' = Append(events, Event(req2(c, cpd).o, req2(c, cpd).cpd, None,
                                            req2(c, cpd).c, None,
                                            r.http = "ok" /\ r.ec = 0))
          /\ response2' = Some([m2 |-> r.m2, ec |-> r.ec,
                                 au |-> IF CompleteStage(r) = "ok" THEN r.au ELSE AuAbsent])
          /\ m2_verified' = (m2_verified \/ (r.http = "ok" /\ r.ec = 0 /\ r.m2 = "valid"))
          /\ spd_received' = (spd_received \/ (r.http = "ok" /\ r.ec = 0 /\ r.m2 = "valid"
                                                /\ r.spd.kind = "ok"))
          /\ spd' = spd_after(r, spd)
          /\ IF CompleteStage(r) = "ok"
             THEN /\ login_state' = LoginStateOfAu(r.au)
                  /\ pc' = "loop"
                  /\ last_ok' = "srp"
                  /\ ClearLocals
                  /\ UNCHANGED <<attempts, result, error, failed>>
             ELSE /\ Fail(CompleteStage(r))
                  /\ login_state' = state_after_error(login_state)
                  /\ UNCHANGED last_ok
    /\ UNCHANGED <<data, url_bag, outside, response, srp_runs, tfa_ok, callbacks>>


(***************************************************************************)
(* AppleAccount::trusted_device_2fa (apple_account.rs:182-236)             *)
(***************************************************************************)
CallbackResults == {None, Some("123456")}
HttpOutcomes == {"ok", "fail"}
ValidateResponses == [http : HttpOutcomes, ec : ErrorCodes]
SmsSubmitResponses == [http : HttpOutcomes, success : BOOLEAN]

TdAnisette ==
    /\ Anisette("td_anisette", "td_request", "Anisette2FA")
    /\ UNCHANGED srp_runs

\* apple_account.rs:194-209: the URLs, the headers and the request for a code
TdRequest ==
    /\ pc = "td_request"
    /\ IF ~get_url(url_bag, "trustedDeviceSecondaryAuth") \/ ~get_url(url_bag, "validateCode")
       THEN /\ Fail("UrlBag")
            /\ UNCHANGED events
       ELSE IF ~build_2fa_headers(spd)
       THEN /\ Fail("2FAHeaders")
            /\ UNCHANGED events
       ELSE \E http \in HttpOutcomes :
               /\ events' = Append(events, Event("trustedDeviceSecondaryAuth", None,
                                                 anisette_data, None, None, http = "ok"))
               /\ IF http = "ok"
                  THEN /\ pc' = "td_callback"
                       /\ UNCHANGED <<attempts, result, error, failed, locals>>
                  ELSE Fail("Request2FA")
    /\ UNCHANGED <<account, data, url_bag, outside, response, response2, m2_verified, last_ok,
                   counters>>

\* Mutant: a missing code is not noticed
code_provided_unchecked(cb) == TRUE

\* apple_account.rs:212, 264: ok_or_else on the callback's result
code_provided(cb) == IsSome(cb)

\* The two-factor callback is invoked (apple_account.rs:211-212, 263-264)
Callback(at, next) ==
    /\ pc = at
    /\ \E cb \in CallbackResults :
          /\ events' = Append(events, Event("callback", None, None, None, cb, IsSome(cb)))
          /\ IF code_provided(cb)
             THEN /\ code' = cb
                  /\ pc' = next
                  /\ UNCHANGED <<attempts, result, error, failed, anisette_data, cpd, c>>
             ELSE Fail("No2FACodeProvided")
    /\ callbacks' = callbacks + 1
    /\ UNCHANGED <<account, data, url_bag, outside, response, response2, m2_verified, last_ok,
                   spd_received, srp_runs, tfa_ok>>

TdCallback ==
    /\ Callback("td_callback", "td_submit")

\* apple_account.rs:214-235 and login's assignment at 130
TdSubmit ==
    /\ pc = "td_submit"
    /\ IF ~build_2fa_headers(spd)
       THEN /\ Fail("2FAHeaders")
            /\ UNCHANGED <<events, login_state, last_ok, tfa_ok>>
       ELSE \E r \in ValidateResponses :
               /\ events' = Append(events, Event("validateCode", None, anisette_data,
                                                 None, code, r.http = "ok" /\ r.ec = 0))
               /\ IF r.http = "ok" /\ r.ec = 0
                  THEN /\ login_state' = StateAfter2FA
                       /\ pc' = "loop"
                       /\ last_ok' = "device2fa"
                       /\ tfa_ok' = tfa_ok + 1
                       /\ ClearLocals
                       /\ UNCHANGED <<attempts, result, error, failed>>
                  ELSE /\ Fail(IF r.http = "ok" THEN "AuthWithMessage" ELSE "Submit2FA")
                       /\ UNCHANGED <<login_state, last_ok, tfa_ok>>
    /\ UNCHANGED <<spd, data, url_bag, outside, response, response2, m2_verified, spd_received,
                   srp_runs, callbacks>>

(***************************************************************************)
(* AppleAccount::sms_2fa (apple_account.rs:238-330)                        *)
(***************************************************************************)
SmsAnisette ==
    /\ Anisette("sms_anisette", "sms_request", "Anisette2FA")
    /\ UNCHANGED srp_runs

\* apple_account.rs:250-261
SmsRequest ==
    /\ pc = "sms_request"
    /\ IF ~get_url(url_bag, "secondaryAuth")
       THEN /\ Fail("UrlBag")
            /\ UNCHANGED events
       ELSE IF ~build_2fa_headers(spd)
       THEN /\ Fail("2FAHeaders")
            /\ UNCHANGED events
       ELSE \E http \in HttpOutcomes :
               /\ events' = Append(events, Event("secondaryAuth", None, anisette_data,
                                                 None, None, http = "ok"))
               /\ IF http = "ok"
                  THEN /\ pc' = "sms_callback"
                       /\ UNCHANGED <<attempts, result, error, failed, locals>>
                  ELSE Fail("Request2FA")
    /\ UNCHANGED <<account, data, url_bag, outside, response, response2, m2_verified, last_ok,
                   counters>>

SmsCallback ==
    /\ Callback("sms_callback", "sms_submit")

\* apple_account.rs:266-329 and login's assignment at 138
SmsSubmit ==
    /\ pc = "sms_submit"
    /\ IF ~build_2fa_headers(spd)
       THEN /\ Fail("2FAHeaders")
            /\ UNCHANGED <<events, login_state, last_ok, tfa_ok>>
       ELSE \E r \in SmsSubmitResponses :
               /\ events' = Append(events, Event("securitycode", None, anisette_data,
                                                 None, code, r.http = "ok" /\ r.success))
               /\ IF r.http = "ok" /\ r.success
                  THEN /\ login_state' = StateAfter2FA
                       /\ pc' = "loop"
                       /\ last_ok' = "sms2fa"
                       /\ tfa_ok' = tfa_ok + 1
                       /\ ClearLocals
                       /\ UNCHANGED <<attempts, result, error, failed>>
                  ELSE /\ Fail(IF r.http = "ok" THEN "Bad2FACode" ELSE "Submit2FA")
                       /\ UNCHANGED <<login_state, last_ok, tfa_ok>>
    /\ UNCHANGED <<spd, data, url_bag, outside, response, response2, m2_verified, spd_received,
                   srp_runs, callbacks>>

(***************************************************************************)
(* The account's life: login is called again and again, each call running  *)
(* to its return.                                                          *)
(***************************************************************************)
LoginStep ==
    \/ InnerAnisette
    \/ SrpInit
    \/ SrpComplete
    \/ LoopAbort
    \/ LoopLoggedIn
    \/ LoopNeedsDevice2FA
    \/ LoopNeedsSMS2FA
    \/ LoopNeedsExtraStep
    \/ LoopNeedsLogin
    \/ TdAnisette
    \/ TdRequest
    \/ TdCallback
    \/ TdSubmit
    \/ SmsAnisette
    \/ SmsRequest
    \/ SmsCallback
    \/ SmsSubmit

(***************************************************************************)
(* The methods of the account that read the SPD, called between logins.    *)
(***************************************************************************)
\* `.ok_or_else(|| report!("SPD ... not available"))` and the typed accessors
\* that follow it: the error a method returns when it cannot read `keys`
spd_error(s, keys) ==
    IF ~IsSome(s) THEN "NotLoggedIn"
    ELSE IF keys \subseteq s[1] THEN "" ELSE "Parse"

Returned(fn, err) ==
    [fn |-> fn, result |-> IF err = "" THEN "Ok" ELSE "Err", error |-> err,
     sent |-> FALSE, ec |-> 0, decrypt |-> FALSE]

\* apple_account.rs:554-562: the call got as far as posting its request
Requested(fn, err) == [Returned(fn, err) EXCEPT !.sent = TRUE]

\* apple_account.rs:159-166
GetName ==
    /\ pc = "idle"
    /\ call' = Returned("get_name", spd_error(spd, {"fn", "ln"}))
    /\ UNCHANGED <<login_state, spd, data, url_bag, pc, attempts, result, error, locals,
                   history, counters, failed, others>>

\* apple_account.rs:168-180
GetPet ==
    /\ pc = "idle"
    /\ call' = Returned("get_pet", spd_error(spd, {"pet"}))
    /\ UNCHANGED <<login_state, spd, data, url_bag, pc, attempts, result, error, locals,
                   history, counters, failed, others>>

\* apple_account.rs:332-358, for any snapshot
Build2FAHeaders ==
    /\ pc = "idle"
    /\ call' = Returned("build_2fa_headers", spd_error(spd, {"adsid", "GsIdmsToken"}))
    /\ UNCHANGED <<login_state, spd, data, url_bag, pc, attempts, result, error, locals,
                   history, counters, failed, others>>

\* What the exchange of get_app_token and the decoding of its response end in
\* (apple_account.rs:564-607)
AppTokenOutcomes ==
    {"plist_request", "AuthWithMessage", "Parse", "Decrypt", "StatusCode", ""}

\* Responses to the `apptokens` request: the `ec` the response carries, whether
\* it has an `et`, and what decrypting and reading the token ends in
\* (a response with an error code is one whose token, if it has one, could be
\* read; without an `et` there is no token to read)
AppTokenBodies ==
    {r \in [http : {"ok"}, ec : ErrorCodes, et : BOOLEAN,
            token : AppTokenOutcomes \ {"plist_request", "AuthWithMessage"}] :
        (r.ec # 0 \/ ~r.et) => r.token = ""}
AppTokenNoBody == [http |-> "fail", ec |-> 0, et |-> FALSE, token |-> ""]
AppTokenExchanges == AppTokenBodies \cup {AppTokenNoBody}

\* apple_account.rs:564-607: the step at which an `apptokens` response ends the
\* call, and whether decrypt_gcm was called on the way
AppTokenStage(r) ==
    IF r.http # "ok" THEN [error |-> "plist_request", decrypt |-> FALSE]
    ELSE IF r.ec # 0 THEN [error |-> "AuthWithMessage", decrypt |-> FALSE]
    ELSE IF ~r.et THEN [error |-> "Parse", decrypt |-> FALSE]
    ELSE [error |-> r.token, decrypt |-> TRUE]

\* apple_account.rs:511-613: the anisette data is fetched first, then the SPD
\* is read, then the URL is looked up and the request is sent
GetAppToken ==
    /\ pc = "idle"
    /\ \E a \in get_anisette_data(data) :
          /\ data' = a.data
          /\ IF ~a.ok THEN call' = Returned("get_app_token", "Anisette")
             ELSE IF spd_error(spd, {"adsid", "GsIdmsToken", "sk", "c"}) # ""
             THEN call' = Returned("get_app_token",
                                   spd_error(spd, {"adsid", "GsIdmsToken", "sk", "c"}))
             ELSE IF ~get_url(url_bag, "gsService")
             THEN call' = Returned("get_app_token", "UrlBag")
             ELSE \E r \in AppTokenExchanges :
                     call' = [Requested("get_app_token", AppTokenStage(r).error)
                                 EXCEPT !.ec = r.ec,
                                        !.decrypt = AppTokenStage(r).decrypt]
    /\ UNCHANGED <<login_state, spd, url_bag, pc, attempts, result, error, locals,
                   history, counters, failed, others>>

AccountCall == GetName \/ GetPet \/ Build2FAHeaders \/ GetAppToken

Next == LoginCall \/ LoginStep

Spec == Init /\ [][Next]_vars

\* Every suspension point of login completes: the HTTP client answers or
\* reports a transport error, and the callback returns
FairSpec == Spec /\ WF_vars(LoginStep)

\* The account with all its methods: login, and between logins the methods
\* that read the SPD
AccountNext == Next \/ AccountCall

AccountSpec == Init /\ [][AccountNext]_vars


(***************************************************************************)
(* GrandSlamErrorChecker::check_grandslam_error (grandslam.rs:189-209).    *)
(* A plist value is absent, a signed integer, a string or a dictionary; of *)
(* a dictionary only the keys the function reads are kept: Status, ec, em. *)
(***************************************************************************)
Absent == [kind |-> "absent", v |-> 0]
Integer(n) == [kind |-> "int", v |-> n]
String(t) == [kind |-> "str", v |-> t]
EcValues == {Absent, String("x"), Integer(0), Integer(-20101), Integer(-22406)}
EmValues == {Absent, Integer(1), String("Invalid password")}
StatusValues ==
    {[kind |-> k, ec |-> Absent, em |-> Absent] : k \in {"absent", "str"}}
    \cup [kind : {"dict"}, ec : EcValues, em : EmValues]
Dictionaries == [Status : StatusValues, ec : EcValues, em : EmValues]

\* Mutant: the Status dictionary is not looked at
examined_top(d) == [ec |-> d.ec, em |-> d.em]

\* grandslam.rs:195-198: the dictionary whose ec and em are read
examined(d) ==
    IF d.Status.kind = "dict" THEN [ec |-> d.Status.ec, em |-> d.Status.em]
    ELSE [ec |-> d.ec, em |-> d.em]

\* PlistDataExtract::get_signed_integer(..).unwrap_or(dflt) (plist.rs:87-94)
get_signed_integer_or(value, dflt) == IF value.kind = "int" THEN value.v ELSE dflt

\* PlistDataExtract::get_str(..).unwrap_or(dflt) (plist.rs:70-75)
get_str_or(value, dflt) == IF value.kind = "str" THEN value.v ELSE dflt

\* grandslam.rs:194-208
check_grandslam_error(d) ==
    IF get_signed_integer_or(examined(d).ec, 0) # 0
    THEN [ok |-> FALSE, dict |-> None,
          ec |-> get_signed_integer_or(examined(d).ec, -1),
          em |-> get_str_or(examined(d).em, "Unknown error")]
    ELSE [ok |-> TRUE, dict |-> Some(d), ec |-> 0, em |-> ""]

\* A response dictionary is checked
CheckGrandslamError ==
    /\ \E d \in Dictionaries :
          checked' = Some([input |-> d, output |-> check_grandslam_error(d)])
    /\ UNCHANGED <<isideload, icloud_auth, anisette, apart_checked>>

GrandSlamSpec == Init /\ [][CheckGrandslamError]_vars

(***************************************************************************)
(* AppleAccount::get_app_token on a logged-in account whose SPD holds      *)
(* adsid, GsIdmsToken, sk and c (apple_account.rs:511-613), and            *)
(* decrypt_gcm (634-677): what is sent for an app name and what is done    *)
(* with the `et` of the response.                                          *)
(***************************************************************************)
\* apple_account.rs:635: `data.len() < 3 + 16 + 16`
HeaderLen == 3
IvLen == 16
TagLen == 16
\* apple_account.rs:651
KeyLen == 32

\* b"XYZ" (apple_account.rs:642)
XYZ == <<88, 89, 90>>

\* The first bytes an `et` starts with
Headers == {XYZ, <<88, 89, 65>>, <<65, 89, 90>>}

\* The `et` of n bytes that starts with (what fits of) h
Blob(n, h) == [i \in 1..n |-> IF i <= HeaderLen THEN h[i] ELSE 0]

EncryptedTokens ==
    {Blob(n, h) : n \in {0, HeaderLen - 1, HeaderLen, HeaderLen + IvLen,
                         HeaderLen + IvLen + TagLen - 1, HeaderLen + IvLen + TagLen,
                         HeaderLen + IvLen + TagLen + 1},
                  h \in Headers}

\* Mutant: only the header and the IV are required
too_short_for_iv(d) == Len(d) < HeaderLen + IvLen

\* apple_account.rs:635
too_short(d) == Len(d) < HeaderLen + IvLen + TagLen

\* apple_account.rs:634-677; `authentic` is whether the tag verifies under the
\* key.  `cipher` tells whether decrypt_in_place was reached.
decrypt_gcm(d, key_len, authentic) ==
    IF too_short(d) THEN [error |-> "TooShort", cipher |-> FALSE]
    ELSE IF SubSeq(d, 1, HeaderLen) # XYZ THEN [error |-> "UnknownFormat", cipher |-> FALSE]
    ELSE IF key_len # KeyLen THEN [error |-> "KeyLength", cipher |-> FALSE]
    ELSE IF Len(SubSeq(d, HeaderLen + 1, HeaderLen + IvLen)) # IvLen
    THEN [error |-> "IvLength", cipher |-> FALSE]
    ELSE [error |-> IF authentic THEN "" ELSE "Decrypt", cipher |-> TRUE]

\* App names, as the pieces they are made of
GsPrefix == "com.apple.gs."
AppNames ==
    {<<"xcode.auth">>, <<GsPrefix, "xcode.auth">>, <<"x.", GsPrefix, "y">>, <<>>}

\* apple_account.rs:512: app.contains("com.apple.gs.")
contains(app) == \E i \in 1..Len(app) : app[i] = GsPrefix

\* Mutant: the prefix is put in front of every name
normalize_always(app) == <<GsPrefix>> \o app

\* apple_account.rs:512-516
normalize(app) == IF contains(app) THEN app ELSE <<GsPrefix>> \o app

\* What the exchange gives back: an error of plist_request or of
\* check_grandslam_error, a response without `et`, or one with it
AppTokenResponses ==
    {[kind |-> k, et |-> <<>>] : k \in {"plist_request", "AuthWithMessage", "no_et"}}
        \cup {[kind |-> "et", et |-> d] : d \in EncryptedTokens}

\* The `t` dictionaries of a decrypted token: the names it has a token for
TokenDicts == {{}, {<<GsPrefix, "xcode.auth">>}, {<<"x.", GsPrefix, "y">>, <<GsPrefix>>}}

\* apple_account.rs:511-613
get_app_token(app, resp, key_len, authentic, status, t) ==
    LET name == normalize(app)
        sent == [app |-> <<name>>, checksum |-> <<"apptokens", "adsid", name>>,
                 o |-> "apptokens"]
        call_ == [app |-> app, request |-> sent, response |-> resp, cipher |-> FALSE,
                  lookup |-> None, error |-> ""]
        d == decrypt_gcm(resp.et, key_len, authentic)
    IN  IF resp.kind \in {"plist_request", "AuthWithMessage"}
        THEN [call_ EXCEPT !.error = resp.kind]
        ELSE IF resp.kind = "no_et" THEN [call_ EXCEPT !.error = "Parse"]
        ELSE IF d.error # "" THEN [call_ EXCEPT !.error = d.error, !.cipher = d.cipher]
        ELSE IF status # 200 THEN [call_ EXCEPT !.error = "StatusCode", !.cipher = TRUE]
        ELSE [call_ EXCEPT !.cipher = TRUE, !.lookup = Some(name),
                           !.error = IF name \in t THEN "" ELSE "Parse"]

AppTokenCall ==
    /\ \E app \in AppNames, resp \in AppTokenResponses, key_len \in {KeyLen - 1, KeyLen},
          authentic \in BOOLEAN, status \in {200, 401}, t \in TokenDicts :
          apptoken' = Some(get_app_token(app, resp, key_len, authentic, status, t))
    /\ UNCHANGED <<isideload, icloud_auth, anisette, apart_apptoken>>

AppTokenSpec == Init /\ [][AppTokenCall]_vars

(***************************************************************************)
(* The iteration count of the password derivation in login_inner           *)
(* (apple_account.rs:410-439).  `i` is read as an i64                      *)
(* (util/plist.rs:87-94) and handed to pbkdf2 as `iters as u32`.  An       *)
(* integer is the sequence of its 16-bit words in two's complement, the    *)
(* least significant first.                                                *)
(***************************************************************************)
WordBase == 65536
I64Words == 4
U32Words == 2

\* The words the counts are made of
WordValues == {0, 1, 20000, WordBase - 1}

\* The i64 values the `init` response can hold
IterCounts == [1..I64Words -> WordValues]

\* `iters as u32` (apple_account.rs:438): the low 32 bits
as_u32(i) == [k \in 1..U32Words |-> i[k]]

\* The value of a u32 as an i64: zero-extended
u32_value(u) == [k \in 1..I64Words |-> IF k <= U32Words THEN u[k] ELSE 0]

\* An i64 is negative when its top bit is set
negative(i) == i[I64Words] >= WordBase \div 2

\* apple_account.rs:425-439: the password hash of the selected protocol is
\* derived with the converted count
Derive ==
    /\ derivation = None
    /\ \E i \in IterCounts, sp \in {"s2k", "s2k_fo"} :
          derivation' = Some([i |-> i, sp |-> sp,
                              password_hash |-> IF sp = "s2k_fo" THEN "hex" ELSE "raw",
                              rounds |-> as_u32(i)])
    /\ UNCHANGED <<isideload, icloud_auth, anisette, apart_derivation>>

DeriveSpec == Init /\ [][Derive]_vars

(***************************************************************************)
(* AnisetteDataGenerator::get_anisette_data (anisette/mod.rs:123-153),     *)
(* called by several tasks on clones of one generator, and the remote      *)
(* provider they share (anisette/remote_v3/mod.rs).                        *)
(***************************************************************************)
\* anisette/mod.rs:94: the age in seconds above which a snapshot is refreshed
RefreshAfter == 60

\* now - generated_at in milliseconds when get_anisette_data looks at a cached
\* snapshot; negative when the system clock was set back in between
ElapsedMillis == {-1000, 59999, 60000, 60999, 61000}

\* Duration::as_secs: whole seconds
as_secs(ms) == ms \div 1000

\* AnisetteData::needs_refresh (anisette/mod.rs:92-95), for an elapsed time
\* that SystemTime::elapsed could compute
needs_refresh(ms) == as_secs(ms) > RefreshAfter

\* Mutant: the state never counts as provisioned
is_provisioned_never(st) == FALSE

\* AnisetteState::is_provisioned (remote_v3/state.rs:68-70)
is_provisioned(st) == st.adi_pb # None

\* AnisetteProvider::needs_provisioning of the remote provider: provisioning
\* is needed whenever adi_pb is absent
needs_provisioning(st) == st = None \/ ~is_provisioned(st[1])

\* Mutant: the read guard is kept
drop_kept(r, t) == r

\* anisette/mod.rs:136: drop(provider), the read guard of task t
drop(r, t) == r \ {t}

\* Mutant: a reader does not wait for the writer
can_read_always(w) == TRUE

\* tokio RwLock: a read guard is granted while no write guard is held
can_read(w) == w = None

\* tokio RwLock: the write guard is granted while no guard is held
can_write(r, w) == r = {} /\ w = None

\* get_anisette_data returns `res` to task t
GenReturn(t, res) ==
    /\ gpc' = [gpc EXCEPT ![t] = "idle"]
    /\ glast' = [glast EXCEPT ![t].result = res]

\* get_anisette_data returns the snapshot `v` to task t
GenReturnData(t, v) ==
    /\ gpc' = [gpc EXCEPT ![t] = "idle"]
    /\ glast' = [glast EXCEPT ![t].result = "Ok", ![t].value = v]

\* Mutant: the snapshot is returned without being cached
cache_after_fetch_stale(old, new) == old

\* anisette/mod.rs:144, 149: self.data = Some(arc_data.clone())
cache_after_fetch(old, new) == new

\* anisette/mod.rs:123-130: the call starts; a cached snapshot that needs no
\* refresh is returned as it is
GenCall(t) ==
    /\ gpc[t] = "idle"
    /\ IF gdata[t] = None
       THEN /\ gpc' = [gpc EXCEPT ![t] = "want_read"]
            /\ glast' = [glast EXCEPT ![t] = NoResult]
       ELSE \E ms \in ElapsedMillis :
               IF ms < 0
               THEN /\ glast' = [glast EXCEPT ![t] =
                                   [elapsed |-> Some(ms), cached |-> FALSE,
                                    result |-> "panic", value |-> None]]
                    /\ UNCHANGED gpc
               ELSE IF ~needs_refresh(ms)
               THEN /\ glast' = [glast EXCEPT ![t] =
                                   [elapsed |-> Some(ms), cached |-> TRUE,
                                    result |-> "Ok", value |-> gdata[t]]]
                    /\ UNCHANGED gpc
               ELSE /\ glast' = [glast EXCEPT ![t] =
                                   [elapsed |-> Some(ms), cached |-> FALSE,
                                    result |-> "none", value |-> None]]
                    /\ gpc' = [gpc EXCEPT ![t] = "want_read"]
    /\ UNCHANGED <<state, file, readers, writer, gdata, ws, runs, last_run>>
    /\ UNCHANGED <<isideload, icloud_auth, apart>>

\* anisette/mod.rs:133: self.provider.read().await
GenRead(t) ==
    /\ gpc[t] = "want_read"
    /\ can_read(writer)
    /\ readers' = readers \cup {t}
    /\ gpc' = [gpc EXCEPT ![t] = "check"]
    /\ UNCHANGED <<state, file, writer, gdata, glast, ws, runs, last_run>>
    /\ UNCHANGED <<isideload, icloud_auth, apart>>

\* anisette/mod.rs:135-136: provider.needs_provisioning()?, and the read guard
\* dropped when provisioning is needed
GenCheck(t) ==
    /\ gpc[t] = "check"
    /\ \E failed_check \in BOOLEAN :
          IF failed_check
          THEN /\ readers' = readers \ {t}
               /\ GenReturn(t, "Err")
          ELSE IF needs_provisioning(state)
          THEN /\ readers' = drop(readers, t)
               /\ gpc' = [gpc EXCEPT ![t] = "want_write"]
               /\ UNCHANGED glast
          ELSE /\ gpc' = [gpc EXCEPT ![t] = "fetch"]
               /\ UNCHANGED <<readers, glast>>
    /\ UNCHANGED <<state, file, writer, gdata, ws, runs, last_run>>
    /\ UNCHANGED <<isideload, icloud_auth, apart>>

\* anisette/mod.rs:137: self.provider.write().await
GenWrite(t) ==
    /\ gpc[t] = "want_write"
    /\ can_write(readers, writer)
    /\ writer' = Some(t)
    /\ gpc' = [gpc EXCEPT ![t] = "provision"]
    /\ UNCHANGED <<state, file, readers, gdata, glast, ws, runs, last_run>>
    /\ UNCHANGED <<isideload, icloud_auth, apart>>

\* anisette/mod.rs:141: the read guard taken again after provisioning
GenReadAgain(t) ==
    /\ gpc[t] = "want_read_again"
    /\ can_read(writer)
    /\ readers' = readers \cup {t}
    /\ gpc' = [gpc EXCEPT ![t] = "fetch"]
    /\ UNCHANGED <<state, file, writer, gdata, glast, ws, runs, last_run>>
    /\ UNCHANGED <<isideload, icloud_auth, apart>>

\* anisette/mod.rs:142-145, 147-150: provider.get_anisette_data().await?, the
\* snapshot cached and returned; the read guard is dropped on return.  The
\* provider derives headers from adi_pb and fails without it.
GenFetch(t) ==
    /\ gpc[t] = "fetch"
    /\ \E o \in {None} \cup {Some(n) : n \in Snapshots} :
          IF o = None \/ needs_provisioning(state)
          THEN /\ GenReturn(t, "Err")
               /\ UNCHANGED gdata
          ELSE /\ GenReturnData(t, o)
               /\ gdata' = [gdata EXCEPT ![t] = cache_after_fetch(gdata[t], o)]
    /\ readers' = readers \ {t}
    /\ UNCHANGED <<state, file, writer, ws, runs, last_run>>
    /\ UNCHANGED <<isideload, icloud_auth, apart>>

(***************************************************************************)
(* RemoteV3AnisetteProvider::get_state and provision                       *)
(* (anisette/remote_v3/mod.rs:155-178, 208-379), run by the generator      *)
(* under the write guard (anisette/mod.rs:138-139).                        *)
(***************************************************************************)
\* The provisioning messages a session handles before it must end
MaxMessages == 3

\* The saturation value of the count of sessions
MaxRuns == 2

\* ProvisioningMessage (remote_v3/mod.rs:382-393), and what else the read of
\* the socket can deliver: a close frame, a transport error, a frame that does
\* not decode to one of the messages
GiveMessages == {"GiveIdentifier", "GiveStartProvisioningData", "GiveEndProvisioningData"}
FailureMessages ==
    {"Timeout", "InvalidIdentifier", "StartProvisioningError", "EndProvisioningError"}
SocketFailures == {"Close", "TransportError", "DecodeError"}

\* AnisetteState::new (remote_v3/state.rs:54-66)
new_state(id) == [keychain_identifier |-> id, adi_pb |-> None]

\* How a handler of a Give message ends: the POST or the send over the socket
\* fails, the response of the POST lacks what is read from it, or all is sent
HandlerOutcomes == {"TransportError", "DecodeError", "ok"}

\* How the handling of ProvisioningSuccess ends
SuccessOutcomes == {"DecodeError", "CloseError", "ok"}

Range(seq) == {seq[i] : i \in 1..Len(seq)}

\* Mutant: the write guard outlives a provision that failed
ProvisionErr_held(t) ==
    /\ writer' = writer
    /\ GenReturn(t, "Err")

\* provider_write.provision(gs).await? returned an error: the write guard is
\* dropped and get_anisette_data returns the error (anisette/mod.rs:139)
ProvisionErr(t) ==
    /\ writer' = None
    /\ GenReturn(t, "Err")

\* provision returned Ok: the write guard is dropped (anisette/mod.rs:140)
ProvisionOk(t) ==
    /\ writer' = None
    /\ gpc' = [gpc EXCEPT ![t] = "want_read_again"]
    /\ UNCHANGED glast

\* remote_v3/mod.rs:175-177: the state is written to state.plist
Persist(t) ==
    \E written \in BOOLEAN :
        IF written
        THEN file' = Some(to_file_xml(state'[1])) /\ ProvisionOk(t)
        ELSE UNCHANGED file /\ ProvisionErr(t)

\* Mutant: get_state writes the state although provisioning failed
file_after_failure_written(f, st) == Some(to_file_xml(st[1]))

\* remote_v3/mod.rs:171-175: the `?` after provision returns before the state
\* is written
file_after_failure(f, st) == f

\* The session ended with `res`
SessionEnd(res) ==
    /\ last_run' = [result |-> res, sent |-> Range(ws[1].sent)]
    /\ ws' = None

\* remote_v3/mod.rs:155-174 and 208-232: the state is loaded if it was not,
\* and unless it is provisioned the URLs are looked up and the socket opened
ProvisionStart(t) ==
    /\ gpc[t] = "provision"
    /\ \E o \in {"create_dir_all", "url_bag", "connect", "ok"}, id \in Identifiers :
          IF o = "create_dir_all"
          THEN /\ ProvisionErr(t)
               /\ UNCHANGED <<state, file, ws, runs, last_run>>
          ELSE IF state = None /\ from_file(file).tag = "panic"
          THEN /\ writer' = None
               /\ GenReturn(t, "panic")
               /\ last_run' = [result |-> "panic", sent |-> {}]
               /\ UNCHANGED <<state, file, ws, runs>>
          ELSE /\ state' = IF state # None THEN state
                           ELSE IF from_file(file).tag = "Ok" THEN from_file(file).state
                           ELSE Some(new_state(id))
               /\ IF is_provisioned(state'[1])
                  THEN /\ Persist(t)
                       /\ last_run' = IF state = None
                                      THEN [result |-> "Loaded", sent |-> {}]
                                      ELSE last_run
                       /\ UNCHANGED <<ws, runs>>
                  ELSE IF o = "ok"
                  THEN /\ ws' = Some([sent |-> <<>>, received |-> 0, ended |-> FALSE])
                       /\ runs' = IF runs < MaxRuns THEN runs + 1 ELSE runs
                       /\ gpc' = [gpc EXCEPT ![t] = "ws"]
                       /\ UNCHANGED <<file, writer, glast, last_run>>
                  ELSE /\ last_run' = [result |-> o, sent |-> {}]
                       /\ ProvisionErr(t)
                       /\ file' = file_after_failure(file, state')
                       /\ UNCHANGED <<ws, runs>>
    /\ UNCHANGED <<readers, gdata>>
    /\ UNCHANGED <<isideload, icloud_auth, apart>>

\* The session handled one more message and sent `items`
Sent(items) ==
    /\ ws' = Some([ws[1] EXCEPT !.sent = @ \o items, !.received = @ + 1])
    /\ UNCHANGED <<state, file, writer, gpc, glast, last_run>>

\* The session ended in the error `err`
Aborted(t, err) ==
    /\ last_run' = [result |-> err, sent |-> {}]
    /\ ws' = None
    /\ ProvisionErr(t)
    /\ file' = file_after_failure(file, state')

\* remote_v3/mod.rs:251-262
GiveIdentifier(t) ==
    /\ \E o \in {"TransportError", "ok"} :
          IF o = "ok" THEN Sent(<<"identifier">>)
          ELSE Aborted(t, o) /\ UNCHANGED state

\* remote_v3/mod.rs:263-302
GiveStartProvisioningData(t) ==
    /\ \E o \in HandlerOutcomes :
          IF o = "ok" THEN Sent(<<"post_start", "spim">>)
          ELSE Aborted(t, o) /\ UNCHANGED state

\* remote_v3/mod.rs:303-350
GiveEndProvisioningData(t) ==
    /\ \E o \in HandlerOutcomes :
          IF o = "ok" THEN Sent(<<"post_end", "ptm_tk">>)
          ELSE Aborted(t, o) /\ UNCHANGED state

\* Mutant: the provisioned state gets an identifier of its own
provisioned_renamed(st, b) ==
    [keychain_identifier |-> CHOOSE id \in Identifiers : id # st.keychain_identifier,
     adi_pb |-> Some(b)]

\* remote_v3/mod.rs:352: state.adi_pb = Some(..)
provisioned(st, b) == [st EXCEPT !.adi_pb = Some(b)]

\* remote_v3/mod.rs:351-356 and 175-177: adi_pb is assigned, then the socket
\* is closed, then get_state writes the state
ProvisioningSuccess(t) ==
    /\ \E o \in SuccessOutcomes, b \in Blobs :
          IF o = "DecodeError"
          THEN Aborted(t, o) /\ UNCHANGED state
          ELSE /\ state' = Some(provisioned(state[1], b))
               /\ IF o = "CloseError"
                  THEN Aborted(t, o)
                  ELSE SessionEnd("Ok") /\ Persist(t)

\* remote_v3/mod.rs:235-237: `ws_stream.next()` returned None, the stream has
\* ended; the loop continues, and an ended stream returns None to every
\* later `next()`
StreamEnd(t) ==
    /\ ws' = Some([ws[1] EXCEPT !.ended = TRUE])
    /\ UNCHANGED <<state, file, writer, gpc, glast, last_run>>

\* remote_v3/mod.rs:234-250 and 357-374: the next message is read and handled
WsMessage(t) ==
    /\ gpc[t] = "ws"
    /\ \/ /\ ~ws[1].ended
          /\ ws[1].received < MaxMessages
          /\ \E m \in GiveMessages :
                CASE m = "GiveIdentifier" -> GiveIdentifier(t)
                  [] m = "GiveStartProvisioningData" -> GiveStartProvisioningData(t)
                  [] m = "GiveEndProvisioningData" -> GiveEndProvisioningData(t)
       \/ ~ws[1].ended /\ ProvisioningSuccess(t)
       \/ /\ ~ws[1].ended
          /\ \E m \in FailureMessages \cup SocketFailures :
                Aborted(t, m) /\ UNCHANGED state
       \/ StreamEnd(t)
    /\ UNCHANGED <<readers, gdata, runs>>
    /\ UNCHANGED <<isideload, icloud_auth, apart>>

GeneratorStep(t) ==
    \/ GenCall(t) \/ GenRead(t) \/ GenCheck(t) \/ GenWrite(t)
    \/ ProvisionStart(t) \/ WsMessage(t) \/ GenReadAgain(t) \/ GenFetch(t)

\* The program ends and is started again: RemoteV3AnisetteProvider::new
\* (remote_v3/mod.rs:82-94) and AnisetteDataGenerator::new
\* (anisette/mod.rs:115-121) on the same config_path
Restart ==
    /\ state # None
    /\ \A t \in Tasks : gpc[t] = "idle"
    /\ state' = None
    /\ gdata' = [t \in Tasks |-> None]
    /\ glast' = [t \in Tasks |-> NoResult]
    /\ UNCHANGED <<file, readers, writer, gpc, ws, runs, last_run>>
    /\ UNCHANGED <<isideload, icloud_auth, apart>>

AnisetteNext == (\E t \in Tasks : GeneratorStep(t)) \/ Restart

\* The account's URL bag plays no part here
AnisetteInit ==
    /\ Fresh
    /\ url_bag = UrlKeys
    /\ file \in StateFiles

AnisetteSpec == AnisetteInit /\ [][AnisetteNext]_vars

\* Every suspension point of a get_anisette_data call completes: a lock that
\* is free is acquired, the socket delivers its next item or its end, the HTTP
\* client answers or reports an error
AnisetteFairSpec == AnisetteSpec /\ \A t \in Tasks : WF_vars(GeneratorStep(t))

(***************************************************************************)
(* SideloadingStorage and its backends (util/storage.rs, fs_storage.rs,    *)
(* keyring_storage.rs).  A value is a sequence of bytes; a string is the    *)
(* sequence of its bytes.                                                  *)
(***************************************************************************)
\* "default" is a backend that implements store and retrieve only
Backends == {"memory", "fs", "keyring", "default"}
StorageKeys == {"anisette_state", "cert"}

\* The first character of the base64 alphabet, as far as it is told apart
\* from other bytes
Base64Base == 100

\* The strings given to store and the data given to store_data
Texts == {<<>>, <<1>>, <<Base64Base + 1>>}
Datas == {<<>>, <<1>>}

\* BASE64_STANDARD.encode (util/storage.rs:12): the empty data gives the
\* empty string, other data a string over the alphabet that tells it
encode(d) == [i \in 1..Len(d) |-> d[i] + Base64Base]

\* BASE64_STANDARD.decode (util/storage.rs:17): an error on a string that is
\* not over the alphabet
decode(t) ==
    IF \A i \in 1..Len(t) : t[i] >= Base64Base
    THEN [ok |-> TRUE, data |-> [i \in 1..Len(t) |-> t[i] - Base64Base]]
    ELSE [ok |-> FALSE, data |-> <<>>]

\* The backends whose own operation can fail: a file system or keyring error
Fallible(b) == b \in {"fs", "keyring"}

\* new_storage (util/storage.rs:29-45) or the constructor of a backend
NewStorage ==
    /\ storage = None
    /\ \E b \in Backends :
          storage' = Some([backend |-> b, content |-> [k \in StorageKeys |-> None],
                           deleted |-> {},
                           last |-> [op |-> "new", key |-> "", ok |-> TRUE, value |-> None]])
    /\ UNCHANGED <<isideload, icloud_auth, anisette, apart_storage>>

\* An operation on key k returned: with an error and nothing changed, or with
\* `value` and the backend holding `content`
StorageOp(op, k, ok, content, deleted, value) ==
    /\ storage # None
    /\ storage' = Some([backend |-> storage[1].backend,
                        content |-> IF ok THEN content ELSE storage[1].content,
                        deleted |-> IF ok THEN deleted ELSE storage[1].deleted,
                        last |-> [op |-> op, key |-> k, ok |-> ok,
                                  value |-> IF ok THEN value ELSE None]])
    /\ UNCHANGED <<isideload, icloud_auth, anisette, apart_storage>>

\* store: util/storage.rs:66-70, fs_storage.rs:42-44 and 24-31,
\* keyring_storage.rs:24-27
Store ==
    \E k \in StorageKeys, v \in Texts, ok \in BOOLEAN :
        /\ storage # None
        /\ ok \/ Fallible(storage[1].backend)
        /\ StorageOp("store", k, ok, [storage[1].content EXCEPT ![k] = Some(v)],
                     storage[1].deleted \ {k}, None)

\* store_data: util/storage.rs:11-13 for every backend but the file system,
\* fs_storage.rs:24-31
StoreData ==
    \E k \in StorageKeys, d \in Datas, ok \in BOOLEAN :
        /\ storage # None
        /\ ok \/ Fallible(storage[1].backend)
        /\ StorageOp("store_data", k, ok,
                     [storage[1].content EXCEPT
                         ![k] = Some(IF storage[1].backend = "fs" THEN d ELSE encode(d))],
                     storage[1].deleted \ {k}, None)

\* retrieve: util/storage.rs:72-75, fs_storage.rs:46-52, keyring_storage.rs:29-36
Retrieve ==
    \E k \in StorageKeys, ok \in BOOLEAN :
        /\ storage # None
        /\ ok \/ Fallible(storage[1].backend)
        /\ StorageOp("retrieve", k, ok, storage[1].content, storage[1].deleted,
                     storage[1].content[k])

\* retrieve_data: util/storage.rs:15-21 for every backend but the file
\* system, fs_storage.rs:33-40
RetrieveData ==
    \E k \in StorageKeys, ok \in BOOLEAN :
        /\ storage # None
        /\ ok \/ Fallible(storage[1].backend)
        /\ LET held == storage[1].content[k]
               decoded == held # None /\ storage[1].backend # "fs"
           IN  StorageOp("retrieve_data", k,
                         ok /\ (decoded => decode(held[1]).ok),
                         storage[1].content, storage[1].deleted,
                         IF decoded THEN Some(decode(held[1]).data) ELSE held)

\* delete: util/storage.rs:77-81 and keyring_storage.rs:38-45 remove the key;
\* the file system backend and every backend without a delete of its own
\* store the empty string (util/storage.rs:23-25)
deleted_content(b, held, k) ==
    IF b \in {"memory", "keyring"} THEN [held EXCEPT ![k] = None]
    ELSE [held EXCEPT ![k] = Some(<<>>)]

Delete ==
    \E k \in StorageKeys, ok \in BOOLEAN :
        /\ storage # None
        /\ ok \/ Fallible(storage[1].backend)
        /\ StorageOp("delete", k, ok,
                     deleted_content(storage[1].backend, storage[1].content, k),
                     storage[1].deleted \cup {k}, None)

StorageNext == NewStorage \/ Store \/ StoreData \/ Retrieve \/ RetrieveData \/ Delete

StorageSpec == Init /\ [][StorageNext]_vars

(***************************************************************************)
(* CertificateIdentity::request_certificate and revoke_others              *)
(* (sideload/cert_identity.rs:177-324).  The developer service refuses a   *)
(* request with error 7460 while the team holds `limit` certificates or    *)
(* more.                                                                   *)
(***************************************************************************)
\* cert_identity.rs:189: `while i < 4`
MaxTries == 4

\* The certificates a team holds at most when the call is made
MaxHeld == 5

MaxCertsBehaviors == {"Revoke", "Error", "Prompt"}

\* cert_identity.rs:177-187: the call starts, for a team that holds `held`
\* certificates
CertCall ==
    /\ cert = None
    /\ \E b \in MaxCertsBehaviors, held \in 0..MaxHeld, limit \in {1, 2} :
          cert' = Some([pc |-> "submit", behavior |-> b, i |-> 0, existing_certs |-> None,
                        held |-> held, limit |-> limit, requests |-> 0, revoked |-> 0,
                        refused |-> 0, transient |-> 0, result |-> "none"])
    /\ UNCHANGED <<isideload, icloud_auth, anisette, apart_cert>>

\* request_certificate returns
CertReturn(cur, res) == Some([cur EXCEPT !.pc = "done", !.result = res])

\* cert_identity.rs:189
tries_left(i) == i < MaxTries

\* cert_identity.rs:189-247: one pass of the loop up to the call of
\* revoke_others.  The request is accepted, refused with 7460, refused with
\* another DeveloperError, or fails otherwise (and then the loop goes on)
CertSubmit ==
    /\ cert # None /\ cert[1].pc = "submit"
    /\ IF ~tries_left(cert[1].i)
       THEN cert' = CertReturn(cert[1], "MaxAttempts")
       ELSE LET cur == [cert[1] EXCEPT !.i = @ + 1, !.requests = @ + 1]
            IN  IF cur.held >= cur.limit
                THEN \E listed \in BOOLEAN, with_serial \in 0..cur.held :
                        IF cur.existing_certs # None
                        THEN cert' = Some([cur EXCEPT !.pc = "revoke", !.refused = @ + 1])
                        ELSE IF listed
                        THEN cert' = Some([cur EXCEPT !.pc = "revoke", !.refused = @ + 1,
                                                      !.existing_certs = Some(with_serial)])
                        ELSE cert' = CertReturn(cur, "Err")
                ELSE \E o \in {"Ok", "Err", "DeveloperError", "other"} :
                        CASE o = "Ok" ->
                                 cert' = CertReturn([cur EXCEPT !.held = @ + 1], "Ok")
                          [] o = "Err" ->
                                 cert' = CertReturn([cur EXCEPT !.held = @ + 1], "Err")
                          [] o = "DeveloperError" -> cert' = CertReturn(cur, "Err")
                          [] OTHER -> cert' = Some([cur EXCEPT !.transient = @ + 1])
    /\ UNCHANGED <<isideload, icloud_auth, anisette, apart_cert>>

\* cert_identity.rs:280-324: revoke_others.  With Prompt the chosen
\* certificates are revoked one after the other, and the first revocation that
\* fails ends the call after those before it were revoked
CertRevoke ==
    /\ cert # None /\ cert[1].pc = "revoke"
    /\ LET cur == cert[1]
           left == cur.existing_certs[1]
       IN  CASE cur.behavior = "Revoke" ->
                    IF left = 0 THEN cert' = CertReturn(cur, "MaxCerts")
                    ELSE \E ok \in BOOLEAN :
                            IF ok
                            THEN cert' = Some([cur EXCEPT !.pc = "submit",
                                                          !.existing_certs = Some(left - 1),
                                                          !.held = @ - 1, !.revoked = @ + 1])
                            ELSE cert' = CertReturn(
                                     [cur EXCEPT !.existing_certs = Some(left - 1)], "Err")
             [] cur.behavior = "Error" -> cert' = CertReturn(cur, "MaxCerts")
             [] OTHER ->
                    \E chosen \in {-1} \cup 0..left, ok \in BOOLEAN :
                        IF chosen = -1 THEN cert' = CertReturn(cur, "MaxCerts")
                        ELSE IF ok \/ chosen = 0
                        THEN cert' = Some([cur EXCEPT !.pc = "submit",
                                                      !.existing_certs = Some(left - chosen),
                                                      !.held = @ - chosen,
                                                      !.revoked = @ + chosen])
                        ELSE \E k \in 0..(chosen - 1) :
                                cert' = CertReturn(
                                    [cur EXCEPT !.existing_certs = Some(left - k),
                                                !.held = @ - k, !.revoked = @ + k],
                                    "Err")
    /\ UNCHANGED <<isideload, icloud_auth, anisette, apart_cert>>

CertNext == CertCall \/ CertSubmit \/ CertRevoke

CertSpec == Init /\ [][CertNext]_vars

(***************************************************************************)
(* AnisetteState on its own (anisette/remote_v3/state.rs): its device id,  *)
(* and its conversion to a property list and back.                         *)
(***************************************************************************)
HexDigits ==
    <<"0", "1", "2", "3", "4", "5", "6", "7", "8", "9", "a", "b", "c", "d", "e", "f">>

\* remote_v3/state.rs:78-80: Uuid::from_bytes(..).to_string(), the bytes in
\* lower-case hexadecimal in groups of 8-4-4-4-12 digits
get_device_id(st) ==
    LET hex == [i \in 1..(2 * IdentifierLen) |->
                   LET b == st.keychain_identifier[(i + 1) \div 2]
                   IN  HexDigits[(IF i % 2 = 1 THEN b \div 16 ELSE b % 16) + 1]]
    IN  SubSeq(hex, 1, 8) \o <<"-">> \o SubSeq(hex, 9, 12) \o <<"-">> \o
        SubSeq(hex, 13, 16) \o <<"-">> \o SubSeq(hex, 17, 20) \o <<"-">> \o
        SubSeq(hex, 21, 32)

\* A state is written and what was written is read
Serialize ==
    /\ \E st \in AnisetteStates :
          roundtrip' = Some([from |-> "state", state |-> Some(st),
                             document |-> Some(to_file_xml(st)),
                             loaded |-> from_file(Some(to_file_xml(st)))])
    /\ UNCHANGED <<isideload, icloud_auth, anisette, apart_roundtrip>>

\* A file is read and what was read, if it was a state, is written
Deserialize ==
    /\ \E doc \in Documents :
          roundtrip' = Some([from |-> "document", state |-> from_file(Some(doc)).state,
                             document |-> Some(doc),
                             loaded |-> from_file(Some(doc))])
    /\ UNCHANGED <<isideload, icloud_auth, anisette, apart_roundtrip>>

StateNext == Serialize \/ Deserialize

StateSpec == Init /\ [][StateNext]_vars

(***************************************************************************)
(* AnisetteDataGenerator::get_client_info (anisette/mod.rs:154-157) and    *)
(* the remote provider's get_client_info and ensure_client_info            *)
(* (anisette/remote_v3/mod.rs:129-153), called by several tasks on clones  *)
(* of one generator.                                                       *)
(***************************************************************************)
\* The requests to /v3/client_info that are sent before the server is left
\* alone
MaxInfoRequests == 3

\* What the server answers with
Infos == {"info1", "info2"}

\* How a request that gets no usable answer fails: send, error_for_status,
\* json (remote_v3/mod.rs:138-145)
InfoFailures == {"send", "status", "json"}

\* Mutant: the client info is fetched on every call
needs_fetch_always(ci) == TRUE

\* remote_v3/mod.rs:137: `if self.client_info.is_none()`
needs_fetch(ci) == ci = None

\* get_client_info returns to task t and the write guard is dropped
InfoReturn(t, res, requested) ==
    /\ ilast' = [ilast EXCEPT ![t] = Some([result |-> IF res = None THEN "Err" ELSE "Ok",
                                           info |-> res, requested |-> requested])]
    /\ ipc' = [ipc EXCEPT ![t] = "idle"]
    /\ writer' = None

\* anisette/mod.rs:155: the write guard of the provider is acquired
InfoCall(t) ==
    /\ ipc[t] = "idle"
    /\ can_write(readers, writer)
    /\ writer' = Some(t)
    /\ ipc' = [ipc EXCEPT ![t] = "ensure"]
    /\ UNCHANGED <<client_info, ilast, irequests>>
    /\ UNCHANGED <<state, file, readers, gpc, gdata, glast, ws, runs, last_run>>
    /\ UNCHANGED <<isideload, icloud_auth, apart_info>>

\* remote_v3/mod.rs:137-142 and 130-131: the request is sent if nothing is
\* cached; otherwise a clone of what is cached is returned
InfoEnsure(t) ==
    /\ ipc[t] = "ensure"
    /\ IF needs_fetch(client_info)
       THEN /\ irequests < MaxInfoRequests
            /\ irequests' = irequests + 1
            /\ ipc' = [ipc EXCEPT ![t] = "fetch"]
            /\ UNCHANGED <<client_info, ilast, writer>>
       ELSE /\ InfoReturn(t, client_info, FALSE)
            /\ UNCHANGED <<client_info, irequests>>
    /\ UNCHANGED <<state, file, readers, gpc, gdata, glast, ws, runs, last_run>>
    /\ UNCHANGED <<isideload, icloud_auth, apart_info>>

\* remote_v3/mod.rs:142-147 and 130-131: the answer is cached and a clone of
\* it returned, or the error is returned
InfoResponse(t) ==
    /\ ipc[t] = "fetch"
    /\ \E o \in InfoFailures \cup Infos :
          IF o \in Infos
          THEN client_info' = Some(o) /\ InfoReturn(t, Some(o), TRUE)
          ELSE UNCHANGED client_info /\ InfoReturn(t, None, TRUE)
    /\ UNCHANGED irequests
    /\ UNCHANGED <<state, file, readers, gpc, gdata, glast, ws, runs, last_run>>
    /\ UNCHANGED <<isideload, icloud_auth, apart_info>>

ClientInfoStep(t) == InfoCall(t) \/ InfoEnsure(t) \/ InfoResponse(t)

ClientInfoNext == \E t \in Tasks : ClientInfoStep(t)

ClientInfoSpec == Init /\ [][ClientInfoNext]_vars

(***************************************************************************)
(* Tasks that call both get_anisette_data (anisette/mod.rs:123-152) and    *)
(* get_client_info (154-157) on clones of one generator: the two methods   *)
(* take guards of the same RwLock (anisette/mod.rs:111).  A task is in one *)
(* call at a time, and get_client_info is not called again once the        *)
(* requests to /v3/client_info are used up.  The provider finds the state  *)
(* file of an earlier run, so that its provision is the loading of that    *)
(* file, which succeeds or fails.                                          *)
(***************************************************************************)
LockStep(t) ==
    \/ ipc[t] = "idle" /\ GenCall(t)
    \/ GenRead(t) \/ GenCheck(t) \/ GenWrite(t)
    \/ ProvisionStart(t) \/ GenReadAgain(t) \/ GenFetch(t)
    \/ /\ gpc[t] = "idle"
       /\ irequests < MaxInfoRequests \/ client_info # None
       /\ InfoCall(t)
    \/ InfoEnsure(t) \/ InfoResponse(t)

LockNext == \E t \in Tasks : LockStep(t)

LockInit ==
    /\ Fresh
    /\ url_bag = UrlKeys
    /\ file \in {f \in StateFiles :
                    from_file(f).tag = "Ok" /\ is_provisioned(from_file(f).state[1])}

LockSpec == LockInit /\ [][LockNext]_vars

\* A call that has started goes on: the provider operation it awaits returns
\* (weak fairness of the steps of a call in progress), and a task that waits
\* for a guard gets it: tokio's RwLock queues its waiters first in, first out,
\* so a guard that becomes free again and again is not taken by the others
\* for ever (strong fairness of the acquisitions)
InCall(t) == gpc[t] # "idle" \/ ipc[t] # "idle"
LockFairSpec ==
    /\ LockSpec
    /\ \A t \in Tasks :
          /\ WF_vars(InCall(t) /\ LockStep(t))
          /\ SF_vars(GenRead(t) \/ GenWrite(t) \/ GenReadAgain(t))

(***************************************************************************)
(* AppleAccount::login_email_pass of the icloud-auth crate                 *)
(* (apple-private-apis/icloud-auth/src/client.rs:458-592): one SRP run of  *)
(* the older client.  It talks to the same service, so it is given the     *)
(* same responses.  Where login_inner returns an error for a field that is *)
(* missing or wrong, this client calls unwrap and panics.                  *)
(***************************************************************************)
\* client.rs:582-591: the login state a successful run returns
IcloudLoginStateOfAu(au) ==
    IF au.type = "string"
    THEN CASE au.s = "trustedDeviceSecondaryAuth" -> NeedsDevice2FA
           [] au.s = "secondaryAuth" -> NeedsSMS2FA
           [] OTHER -> NeedsExtraStep(au.s)
    ELSE LoggedIn

\* client.rs:517-538: what the client does with an init response; the selected
\* protocol `sp` is never read
IcloudInitStage(r) ==
    IF r.http # "ok" THEN "Err"
    ELSE IF r.ec # 0 THEN "Err"
    ELSE IF ~r.fields THEN "panic"
    ELSE IF ~r.b_valid THEN "panic"
    ELSE "ok"

\* client.rs:569-580: what the client does with a complete response
IcloudCompleteStage(r) ==
    IF r.http # "ok" THEN "Err"
    ELSE IF r.ec # 0 THEN "Err"
    ELSE IF r.m2 # "valid" THEN "panic"
    ELSE IF r.spd.kind # "ok" THEN "panic"
    ELSE IF ~r.status THEN "panic"
    ELSE "ok"

\* client.rs:160-170, 728-742: an exchange that delivers no usable body ends
\* with Err (transport or plist error) or with a panic (no `Response`, no `ec`)
IcloudOutcomes(r, stage) ==
    IF r.http # "ok" THEN {"Err", "panic"} ELSE {stage}

\* client.rs:458-468: login_email_pass is called and takes the anisette data,
\* refreshing it when it is stale (get_anisette unwraps the refresh)
IcloudCall ==
    /\ icloud_auth.pc = "idle"
    /\ \E refresh \in {"none", "ok", "failed"} :
          icloud_auth' =
             IF refresh = "failed"
             THEN [icloud_auth EXCEPT !.result = "panic", !.state = None, !.c = None,
                                      !.events = <<>>, !.response = None,
                                      !.response2 = None]
             ELSE [icloud_auth EXCEPT !.pc = "init", !.result = "none", !.state = None,
                                      !.c = None, !.events = <<>>, !.response = None,
                                      !.response2 = None]
    /\ UNCHANGED <<isideload, apart, anisette>>

\* client.rs:485-538: the init exchange and the SRP reply
IcloudInit ==
    /\ icloud_auth.pc = "init"
    /\ \E r \in InitResponses : \E res \in IcloudOutcomes(r, IcloudInitStage(r)) :
          icloud_auth' =
             [icloud_auth EXCEPT
                !.events = Append(@, [o |-> "init", c |-> None, ok |-> r.http = "ok" /\ r.ec = 0]),
                !.response = Some([sp |-> r.sp, c |-> r.c]),
                !.c = IF IcloudInitStage(r) = "ok" THEN Some(r.c) ELSE None,
                !.pc = IF IcloudInitStage(r) = "ok" THEN "complete" ELSE "idle",
                !.result = IF IcloudInitStage(r) = "ok" THEN "none" ELSE res]
    /\ UNCHANGED <<isideload, apart, anisette>>

\* client.rs:540-592: the complete exchange, the server proof, the SPD and the
\* returned state
IcloudComplete ==
    /\ icloud_auth.pc = "complete"
    /\ \E r \in CompleteResponses : \E res \in IcloudOutcomes(r, IcloudCompleteStage(r)) :
          icloud_auth' =
             [icloud_auth EXCEPT
                !.events = Append(@, [o |-> "complete", c |-> icloud_auth.c,
                                      ok |-> r.http = "ok" /\ r.ec = 0]),
                !.response2 = Some([m2 |-> r.m2,
                                    au |-> IF IcloudCompleteStage(r) = "ok"
                                           THEN r.au ELSE AuAbsent]),
                !.spd = IF IcloudCompleteStage(r) = "ok" THEN Some(r.spd.dict) ELSE @,
                !.state = IF IcloudCompleteStage(r) = "ok"
                          THEN Some(IcloudLoginStateOfAu(r.au)) ELSE None,
                !.c = None,
                !.pc = "idle",
                !.result = IF IcloudCompleteStage(r) = "ok" THEN "Ok" ELSE res]
    /\ UNCHANGED <<isideload, apart, anisette>>

IcloudNext == IcloudCall \/ IcloudInit \/ IcloudComplete

IcloudSpec == Init /\ [][IcloudNext]_vars

(***************************************************************************)
(* Properties of login.                                                    *)
(***************************************************************************)
Requests(o) == {i \in 1..Len(events) : events[i].o = o}

\* C1: whenever login has returned Ok, the login state is LoggedIn and the
\* SPD is present.
C1_LoginOkIsLoggedIn ==
    result = "Ok" => (login_state = LoggedIn /\ spd # None)

C1_Witness == result = "Ok" /\ login_state = LoggedIn /\ spd # None /\ tfa_ok = 0

\* C2: the loop of login runs at most 10 iterations; when it is back at its
\* top after the 10th without the state being LoggedIn, it aborts with the
\* attempts-exhausted error; and every login call returns.
C2_LoginTerminates ==
    /\ [](attempts <= 10)
    /\ [][(pc = "loop" /\ attempts = 10 /\ login_state # LoggedIn)
            => (pc' = "idle" /\ result' = "Err" /\ error' = "MaxLoginAttempts")]_vars
    /\ ((pc # "idle") ~> (pc = "idle"))

C2_Witness == pc = "idle" /\ result = "Err" /\ error = "MaxLoginAttempts"

\* C3 as stated: the SPD is present if and only if some SRP run of the
\* account has verified the server proof M2.
C3_SpdIffM2Verified == (spd # None) <=> m2_verified

\* C3 amended: the SPD is present if and only if some SRP run has verified M2
\* and then decrypted and parsed the SPD of that response; in particular it is
\* never present before M2 has been verified.
C3_SpdIffReceived ==
    /\ (spd # None) <=> spd_received
    /\ (spd # None) => m2_verified

C3_Witness == spd # None /\ spd_received /\ m2_verified /\ pc = "loop" /\ last_ok = "srp"

\* C4: a 2FA sub-flow that succeeds leaves the state NeedsLogin, and when login
\* has returned Ok the last sub-operation that succeeded is an SRP run of an
\* init and a complete exchange (followed at most by the extra-step check),
\* never a 2FA sub-flow.
C4_TwoFactorThenLogin ==
    /\ [][(pc \in {"td_submit", "sms_submit"} /\ pc' = "loop")
            => login_state' = NeedsLogin]_vars
    /\ [](result = "Ok" =>
            /\ last_ok \in {"srp", "extra"}
            /\ Len(events) = 2
            /\ events[1].o = "init" /\ events[1].ok
            /\ events[2].o = "complete" /\ events[2].ok)

C4_Witness == result = "Ok" /\ tfa_ok >= 1 /\ srp_runs >= 2 /\ last_ok = "srp"


\* C6: a complete request is sent only as the second exchange of its run,
\* after an init request whose response was received and accepted; it carries
\* the cookie of that init response and the cpd of the init request, which is
\* built from the snapshot taken at the start of the run.
C6_InitBeforeComplete ==
    /\ \A i \in Requests("complete") :
          /\ i = 2
          /\ events[1].o = "init" /\ events[1].ok
          /\ response # None
          /\ events[i].c = Some(response[1].c)
          /\ events[i].cpd = events[1].cpd
    /\ \A i \in Requests("init") : i = 1
    /\ (pc = "inner_complete" =>
          /\ Len(events) = 1 /\ events[1].o = "init"
          /\ events[1].cpd # None
          /\ Some(events[1].cpd[1].headers) = anisette_data)

C6_Witness ==
    /\ Len(events) = 2 /\ events[2].o = "complete" /\ events[2].c = Some("c2")
    /\ srp_runs >= 2

\* C7: an SRP run whose complete response carries no valid M2 ends login with
\* an error (NegotiationFailed when the response was accepted up to M2 and M2
\* is there), leaves the SPD as it was and does not change the login state.
C7_ProofMismatchIsFatal ==
    [][(pc = "inner_complete" /\ pc' # "inner_complete" /\ response2' # None
          /\ response2'[1].m2 # "valid")
        => /\ pc' = "idle" /\ result' = "Err"
           /\ spd' = spd
           /\ login_state' = login_state
           /\ ((response2'[1].m2 = "invalid"
                  /\ error' \notin {"plist_request", "AuthWithMessage"})
                 => error' = "NegotiationFailed")]_vars

C7_Witness ==
    /\ pc = "idle" /\ result = "Err" /\ error = "NegotiationFailed"
    /\ spd # None /\ login_state = NeedsLogin

\* C9: the first error of a sub-operation ends login with an error, no
\* request is sent after it, and an SRP run after the first is started only
\* from state NeedsLogin right after a 2FA sub-flow succeeded.
C9_NoRetry ==
    /\ [][failed' => (pc' = "idle" /\ result' = "Err")]_vars
    /\ [][failed => Len(events') <= Len(events)]_vars
    /\ [][(srp_runs' = srp_runs + 1 /\ srp_runs >= 1)
            => (~failed /\ login_state = NeedsLogin
                /\ last_ok \in {"device2fa", "sms2fa"})]_vars
    /\ [](srp_runs <= 1 + tfa_ok)

C9_Witness == failed /\ pc = "idle" /\ result = "Err" /\ srp_runs = 2 /\ tfa_ok = 1

\* C10: a 2FA sub-flow invokes the callback at most once, as its second
\* event, after the request for a code was answered with success; a sub-flow
\* that succeeds invoked it exactly once; when the callback gives no code
\* login has failed with No2FACodeProvided and no code was submitted; a
\* submission carries the code the callback gave.
Submissions == Requests("validateCode") \cup Requests("securitycode")
C10_CallbackOnce ==
    /\ Cardinality(Requests("callback")) <= 1
    /\ \A i \in Requests("callback") :
          /\ i = 2
          /\ events[1].o \in {"trustedDeviceSecondaryAuth", "secondaryAuth"}
          /\ events[1].ok
          /\ (events[i].code = None =>
                /\ Submissions = {}
                /\ pc = "idle" /\ result = "Err" /\ error = "No2FACodeProvided")
    /\ \A j \in Submissions :
          /\ j = 3
          /\ events[2].o = "callback"
          /\ events[2].code # None
          /\ events[j].code = events[2].code
    /\ ((pc = "loop" /\ last_ok \in {"device2fa", "sms2fa"})
          => Cardinality(Requests("callback")) = 1 /\ Cardinality(Submissions) = 1)

C10_Witness ==
    /\ pc = "idle" /\ result = "Err" /\ error = "No2FACodeProvided"
    /\ Len(events) = 2 /\ events[2].o = "callback" /\ events[2].code = None


(***************************************************************************)
(* Properties of an SRP run that the spec states for both clients.         *)
(***************************************************************************)
\* The login state the spec gives for a Status.au that is absent or a string
StateClaimedFor(au) ==
    IF au = AuAbsent THEN LoggedIn
    ELSE IF au = AuString("trustedDeviceSecondaryAuth") THEN NeedsDevice2FA
    ELSE IF au = AuString("secondaryAuth") THEN NeedsSMS2FA
    ELSE IF au = AuString("repair") THEN LoggedIn
    ELSE NeedsExtraStep(au.s)

\* C5, for login_inner: when an SRP run has just succeeded, the login state is
\* the one the spec gives for the Status.au of its complete response.
C5_LoginInnerStateFromAu ==
    (pc = "loop" /\ last_ok = "srp" /\ response2[1].au.type \in {"absent", "string"})
    => login_state = StateClaimedFor(response2[1].au)

\* C5: after a successful SRP run, of login_inner or of login_email_pass, the
\* resulting login state is the one the spec gives for the Status.au of the
\* complete response.
C5_StateFromAu ==
    /\ C5_LoginInnerStateFromAu
    /\ (icloud_auth.result = "Ok" /\ icloud_auth.response2[1].au.type \in {"absent", "string"})
         => icloud_auth.state = Some(StateClaimedFor(icloud_auth.response2[1].au))

\* C8, for login_inner: an init response that selects a protocol other than
\* s2k and s2k_fo ends login with an error, with the SPD as it was, and no
\* complete request is ever sent in a run whose init response selected one.
C8_LoginInnerRejectsProtocol ==
    /\ [][(pc = "inner_init" /\ Len(events') = 1 /\ response'[1].sp \notin {"s2k", "s2k_fo"})
            => (pc' = "idle" /\ result' = "Err" /\ spd' = spd)]_vars
    /\ [](Requests("complete") # {} => response[1].sp \in {"s2k", "s2k_fo"})

\* C8: no SRP run, of login_inner or of login_email_pass, sends a complete
\* request after an init response that selected a protocol other than s2k and
\* s2k_fo.
C8_NoCompleteForOtherProtocol ==
    /\ (Requests("complete") # {} => response[1].sp \in {"s2k", "s2k_fo"})
    /\ \A i \in 1..Len(icloud_auth.events) :
          icloud_auth.events[i].o = "complete"
             => icloud_auth.response[1].sp \in {"s2k", "s2k_fo"}


C12_NotLoggedInWithoutSpd ==
    (call.fn # "none" /\ spd = None)
        => (call.result = "Err" /\ call.error = "NotLoggedIn")

\* What does hold: without an SPD none of the four succeeds, and the error is
\* the not-logged-in error except when get_app_token could not get the
\* anisette data, which it fetches before it looks at the SPD.
C12_NeverOkWithoutSpd ==
    (call.fn # "none" /\ spd = None)
        => /\ call.result = "Err"
           /\ call.error = "NotLoggedIn"
                \/ (call.fn = "get_app_token" /\ call.error = "Anisette")


Provisioned == state # None /\ state[1].adi_pb # None

C15_ProvisioningExclusive ==
    \A t \in Tasks :
        gpc[t] \in {"provision", "ws"} =>
            /\ writer = Some(t)
            /\ readers = {}
            /\ \A u \in Tasks \ {t} : gpc[u] \in {"idle", "want_read", "want_write", "want_read_again"}

C15_Witness ==
    \E t, u \in Tasks :
        /\ gpc[t] = "ws" /\ ws[1].received >= 1
        /\ gpc[u] = "want_read"


\* The lock cycle of a get_anisette_data call that finds provisioning needed:
\* the read guard is dropped, then the write guard is taken, provision runs
\* under it, the write guard is dropped, and the data is fetched under a read
\* guard taken anew.
LockCycle ==
    /\ [](\A t \in Tasks :
            /\ gpc[t] = "check" => (t \in readers /\ writer = None)
            /\ gpc[t] = "want_write" => (t \notin readers /\ writer # Some(t))
            /\ gpc[t] = "provision" => (t \notin readers /\ writer = Some(t))
            /\ gpc[t] = "want_read_again" => (t \notin readers /\ writer # Some(t))
            /\ gpc[t] = "fetch" => (t \in readers /\ writer = None))
    /\ [][\A t \in Tasks :
            /\ (gpc[t] # "want_write" /\ gpc'[t] = "want_write") => gpc[t] = "check"
            /\ (gpc[t] # "provision" /\ gpc'[t] = "provision") => gpc[t] = "want_write"
            /\ (gpc[t] # "ws" /\ gpc'[t] = "ws") => gpc[t] = "provision"
            /\ (gpc[t] # "want_read_again" /\ gpc'[t] = "want_read_again")
                  => gpc[t] \in {"provision", "ws"}
            /\ gpc[t] = "want_read_again" => gpc'[t] \in {"want_read_again", "fetch"}]_vars

\* C16 as stated: the lock cycle above, and the write guard is not held while
\* the provisioning WebSocket exchange is in progress.
C16_NoWriteGuardDuringExchange ==
    /\ LockCycle
    /\ [](\A t \in Tasks : gpc[t] = "ws" => writer # Some(t))

\* C16 amended: the lock cycle above, and the write guard is held by the
\* provisioning task during the whole WebSocket exchange; what the extra lock
\* cycle avoids is holding the write guard while the data is fetched.
C16_WriteGuardDuringExchange ==
    /\ LockCycle
    /\ [](\A t \in Tasks : gpc[t] = "ws" => (writer = Some(t) /\ readers = {}))

C16_Witness ==
    \E t \in Tasks :
        /\ gpc[t] = "fetch" /\ t \in readers /\ writer = None
        /\ last_run.result = "Ok" /\ "ptm_tk" \in last_run.sent
        /\ file = Some(to_file_xml(state[1]))

\* C17 as stated: whenever the provisioning protocol has ended in an error,
\* adi_pb is still None.
C17_FailedRunLeavesNone ==
    last_run.result \notin {"none", "Ok"} => ~Provisioned

\* What does hold: adi_pb is None after every failed session except the one
\* that fails while closing the socket after ProvisioningSuccess was handled.
C17_OnlyCloseErrorProvisions ==
    (last_run.result \notin {"none", "Ok", "Loaded"} /\ Provisioned) =>
        last_run.result = "CloseError"

\* C18: every state written to state.plist has adi_pb present; the file is
\* written only by get_state, with the provider's provisioned state; and a step
\* in which provisioning (or get_state around it) returns an error leaves the
\* file as it was.
C18_PersistedOnlyProvisioned ==
    /\ [][file' # file => (/\ file' # None /\ file'[1].adi_pb # None
                           /\ file' = Some(to_file_xml(state'[1]))
                           /\ state'[1].adi_pb # None
                           /\ writer # None)]_vars
    /\ [][\A t \in Tasks :
            (gpc[t] \in {"provision", "ws"} /\ gpc'[t] = "idle") => file' = file]_vars

C18_Witness ==
    /\ file # None /\ state # None /\ file = Some(to_file_xml(state[1]))
    /\ last_run.result = "Ok" /\ runs = 2

\* C19 as stated: a call that finds a cached snapshot returns it without
\* contacting the provider exactly when less than 60 seconds have elapsed
\* since the snapshot was generated (checked for the elapsed times the clock
\* can measure, those that are not negative).
C19_CachedIffUnder60s ==
    \A t \in Tasks :
        (glast[t].elapsed # None /\ glast[t].elapsed[1] >= 0) =>
            (glast[t].cached <=> glast[t].elapsed[1] < 60 * 1000)

\* What does hold: the cached snapshot is returned exactly when the elapsed
\* time is not negative and less than 61 seconds.
C19_CachedIffUnder61s ==
    \A t \in Tasks :
        glast[t].elapsed # None =>
            (glast[t].cached <=>
                (glast[t].elapsed[1] >= 0 /\ glast[t].elapsed[1] < (RefreshAfter + 1) * 1000))

\* The order of the protocol in what a session has sent
OrderOk(sent) ==
    /\ sent # <<>> => sent[1] = "identifier"
    /\ \A i \in 1..Len(sent) :
          sent[i] = "post_end" => \E j \in 1..(i - 1) : sent[j] = "spim"

\* C20 as stated: for every sequence of incoming messages the client sends the
\* identifier first, posts to midStartProvisioning and sends spim before it
\* posts to midFinishProvisioning, and accepts ProvisioningSuccess only after
\* having sent ptm and tk.
C20_ProtocolOrder ==
    /\ ws # None => OrderOk(ws[1].sent)
    /\ last_run.result = "Ok" => "ptm_tk" \in last_run.sent

\* What does hold: within a handler the POST precedes the send of what it
\* returned.
C20_PostBeforeSend ==
    ws # None =>
        \A i \in 1..Len(ws[1].sent) :
            /\ ws[1].sent[i] = "spim" => (i > 1 /\ ws[1].sent[i - 1] = "post_start")
            /\ ws[1].sent[i] = "ptm_tk" => (i > 1 /\ ws[1].sent[i - 1] = "post_end")

\* C21 as stated: when the provisioning socket's message stream has ended
\* before ProvisioningSuccess was received, provision terminates (with an
\* error) instead of waiting or looping forever.
C21_EndedStreamTerminates ==
    \A t \in Tasks :
        (gpc[t] = "ws" /\ ws # None /\ ws[1].ended) ~> (gpc[t] # "ws")

\* What does hold: a session whose stream has ended stays in its loop, with
\* the write guard held and nothing changed.
C21_EndedStreamLoops ==
    [][\A t \in Tasks :
          (gpc[t] = "ws" /\ ws[1].ended) =>
              (gpc'[t] = "ws" /\ ws' = ws /\ writer' = writer /\ state' = state)]_vars

\* C22 as stated: loading the persisted state never aborts the provider; when
\* the stored file cannot be parsed as an AnisetteState, a keychain_identifier
\* that is not 16 bytes long included, a fresh state with a new identifier and
\* no adi_pb is used instead.
C22_LoadNeverAborts ==
    /\ [](last_run.result # "panic")
    /\ [][(state = None /\ state' # None /\ from_file(file).tag # "Ok") =>
              (state'[1].keychain_identifier \in Identifiers /\ ~Provisioned')]_vars

\* What does hold: a file that is missing, or lacks a key of the state, is
\* replaced by a fresh state; the load panics exactly on a keychain_identifier
\* of another length than 16.
C22_PanicOnIdentifierLength ==
    /\ [][(state = None /\ state' # None /\ from_file(file).tag # "Ok") =>
              (/\ from_file(file).tag = "Err"
               /\ state'[1].keychain_identifier \in Identifiers
               /\ state'[1].adi_pb \in {None} \cup {Some(b) : b \in Blobs})]_vars
    /\ [](last_run.result = "panic" =>
              (/\ state = None /\ file # None /\ file[1].keychain_identifier # None
               /\ Len(file[1].keychain_identifier[1]) # IdentifierLen))

\* C23: the keychain_identifier of the provider's state never changes while
\* the provider has it; the state file is written with that identifier; and a
\* state loaded from the file has the identifier the file holds.
C23_IdentifierFixed ==
    /\ [][(state # None /\ state' # None) =>
              state'[1].keychain_identifier = state[1].keychain_identifier]_vars
    /\ [][file' # file =>
              file'[1].keychain_identifier = Some(state'[1].keychain_identifier)]_vars
    /\ [][(state = None /\ state' # None /\ from_file(file).tag = "Ok") =>
              state'[1].keychain_identifier = file[1].keychain_identifier[1]]_vars

\* A state that was generated by the provider (the files of earlier runs hold
\* other identifiers), provisioned and persisted has been loaded again.
C23_Witness ==
    /\ last_run.result = "Loaded"
    /\ state # None /\ state[1].keychain_identifier[1] = 2
    /\ file = Some(to_file_xml(state[1]))

\* C24: once a client info is cached it is never replaced and no further
\* request is sent; every get_client_info call that succeeds returns the cached
\* value; and a call that returns an error leaves nothing cached.
C24_ClientInfoCached ==
    /\ [][client_info # None =>
              (client_info' = client_info /\ irequests' = irequests)]_vars
    /\ [](\A t \in Tasks :
              (ilast[t] # None /\ ilast[t][1].result = "Ok") =>
                  ilast[t][1].info = client_info)
    /\ [][\A t \in Tasks :
              (ipc[t] # "idle" /\ ipc'[t] = "idle" /\ ilast'[t][1].result = "Err") =>
                  (client_info = None /\ client_info' = None)]_vars

\* A fetch failed, a later one succeeded, and another task was then given the
\* cached value without a request.
C24_Witness ==
    /\ irequests = 2
    /\ client_info = Some("info2")
    /\ ilast["t1"] = Some([result |-> "Ok", info |-> Some("info2"), requested |-> TRUE])
    /\ ilast["t2"] = Some([result |-> "Ok", info |-> Some("info2"), requested |-> FALSE])

C26_NormalizedNameUsed ==
    apptoken # None =>
        LET given == apptoken[1].app
            name == apptoken[1].request.app[1]
        IN  /\ contains(given) => name = given
            /\ ~contains(given) => name = <<GsPrefix>> \o given
            /\ contains(name)
            /\ normalize(name) = name
            /\ apptoken[1].request.app = <<name>>
            /\ apptoken[1].request.checksum = <<"apptokens", "adsid", name>>
            /\ apptoken[1].lookup # None => apptoken[1].lookup = Some(name)

C26_Witness ==
    /\ apptoken # None
    /\ apptoken[1].app = <<"x.", GsPrefix, "y">>
    /\ apptoken[1].lookup = Some(<<"x.", GsPrefix, "y">>)
    /\ apptoken[1].error = ""

\* C27 as stated: an AnisetteState that is serialized and deserialized comes
\* back equal, with the same keychain_identifier and the same adi_pb (None
\* included), and therefore with the same device id.
C27_RoundTrip ==
    (roundtrip # None /\ roundtrip[1].from = "state") =>
        /\ roundtrip[1].loaded.tag = "Ok"
        /\ roundtrip[1].loaded.state = roundtrip[1].state
        /\ get_device_id(roundtrip[1].loaded.state[1]) = get_device_id(roundtrip[1].state[1])

\* What does hold: a state whose adi_pb is present comes back equal and with
\* the same device id; a state without adi_pb is written without the key and
\* is not read back; and every file that is read as a state is written back as
\* it was.
C27_RoundTripOfProvisioned ==
    roundtrip # None =>
        /\ (roundtrip[1].from = "state" /\ roundtrip[1].state[1].adi_pb # None) =>
               /\ roundtrip[1].loaded.tag = "Ok"
               /\ roundtrip[1].loaded.state = roundtrip[1].state
               /\ get_device_id(roundtrip[1].loaded.state[1])
                      = get_device_id(roundtrip[1].state[1])
        /\ (roundtrip[1].from = "state" /\ roundtrip[1].state[1].adi_pb = None) =>
               roundtrip[1].loaded.tag = "Err"
        /\ (roundtrip[1].from = "document" /\ roundtrip[1].loaded.tag = "Ok") =>
               Some(to_file_xml(roundtrip[1].loaded.state[1])) = roundtrip[1].document

\* C28 as stated: for every backend, a retrieve or retrieve_data of a key that
\* was deleted and not stored since returns none.
C28_DeletedIsNone ==
    (/\ storage # None
     /\ storage[1].last.op \in {"retrieve", "retrieve_data"}
     /\ storage[1].last.ok
     /\ storage[1].last.key \in storage[1].deleted) =>
        storage[1].last.value = None

\* What does hold: the in-memory and the keyring backend return none for a
\* deleted key; the file system backend and a backend with the trait's delete
\* return the empty value.
C28_DeletedIsNoneOrEmpty ==
    (/\ storage # None
     /\ storage[1].last.op \in {"retrieve", "retrieve_data"}
     /\ storage[1].last.ok
     /\ storage[1].last.key \in storage[1].deleted) =>
        IF storage[1].backend \in {"memory", "keyring"}
        THEN storage[1].last.value = None
        ELSE storage[1].last.value = Some(<<>>)

\* C29 as stated: with MaxCertsBehavior::Revoke, a call whose requests fail
\* with error 7460 only keeps revoking and retrying until a certificate is
\* created or no existing certificate is left to revoke: it ends with the
\* certificate, with the 7460 error when the list is empty, or with the error
\* of a request that failed for another reason.
C29_RevokeUntilCreated ==
    (/\ cert # None /\ cert[1].pc = "done"
     /\ cert[1].behavior = "Revoke" /\ cert[1].refused > 0 /\ cert[1].transient = 0) =>
        \/ cert[1].result \in {"Ok", "Err"}
        \/ cert[1].result = "MaxCerts" /\ cert[1].existing_certs = Some(0)

\* What does hold: at most four requests are made, and a call that gives up
\* after four refusals has revoked four certificates, the last of them without
\* asking again.
C29_AtMostFourRequests ==
    cert # None =>
        /\ cert[1].requests <= MaxTries
        /\ cert[1].behavior = "Revoke" => cert[1].revoked <= cert[1].refused
        /\ (/\ cert[1].behavior = "Revoke" /\ cert[1].result = "MaxAttempts"
            /\ cert[1].transient = 0) =>
               (cert[1].requests = MaxTries /\ cert[1].revoked = MaxTries)

\* C30 as stated: get_app_token sends its apptokens request only for an
\* account whose login loop has reached LoggedIn.
C30_AppTokenAfterLoggedIn ==
    (call.fn = "get_app_token" /\ call.sent) =>
        login_state = LoggedIn

\* What does hold: the request is sent only for an account that holds an SPD
\* with adsid, GsIdmsToken, sk and c, which an SRP run of login stored.
C30_AppTokenAfterSpd ==
    (call.fn = "get_app_token" /\ call.sent) =>
        (/\ spd # None /\ {"adsid", "GsIdmsToken", "sk", "c"} \subseteq spd[1]
         /\ spd_received)


\* C31: in the init, complete and apptokens exchanges the GrandSlam error
\* check comes before any use of the response: a response with a nonzero ec
\* ends the operation with AuthWithMessage, leaves the SPD as it was, and
\* neither the server proof is verified nor anything decrypted.
C31_ErrorCheckFirst ==
    /\ [][(pc = "inner_init" /\ events' # events /\ response'[1].ec # 0)
            => (/\ pc' = "idle" /\ result' = "Err" /\ error' = "AuthWithMessage"
                /\ spd' = spd /\ c' = None
                /\ m2_verified' = m2_verified /\ spd_received' = spd_received)]_vars
    /\ [][(pc = "inner_complete" /\ events' # events /\ response2'[1].ec # 0)
            => (/\ pc' = "idle" /\ result' = "Err" /\ error' = "AuthWithMessage"
                /\ spd' = spd /\ login_state' = login_state
                /\ m2_verified' = m2_verified /\ spd_received' = spd_received)]_vars
    /\ [][(call' # call /\ call'.fn = "get_app_token" /\ call'.sent /\ call'.ec # 0)
            => (/\ call'.result = "Err" /\ call'.error = "AuthWithMessage"
                /\ ~call'.decrypt /\ spd' = spd)]_vars

C31_Witness ==
    /\ pc = "idle" /\ result = "Err" /\ error = "AuthWithMessage"
    /\ response2 # None /\ response2[1].ec # 0 /\ response2[1].m2 = "valid"
    /\ spd # None
    /\ call.fn = "get_app_token" /\ call.sent /\ call.ec # 0


\* C32 as stated: for every signed integer count i of the init response the
\* derivation runs PBKDF2 with exactly i iterations.
C32_ExactIterations ==
    derivation # None => u32_value(derivation[1].rounds) = derivation[1].i

\* What does hold: the derivation runs with the low 32 bits of i, which is i
\* itself exactly when 0 <= i < 2^32.
C32_IterationsTruncated ==
    derivation # None =>
        LET d == derivation[1] IN
        /\ d.rounds = as_u32(d.i)
        /\ (u32_value(d.rounds) = d.i)
              <=> (~negative(d.i) /\ \A k \in (U32Words + 1)..I64Words : d.i[k] = 0)


\* C33 as stated: login returns the attempts-exhausted error only while the
\* login state is not LoggedIn.
C33_ExhaustedNotLoggedIn ==
    (pc = "idle" /\ result = "Err" /\ error = "MaxLoginAttempts")
        => login_state # LoggedIn

\* What does hold: the attempts-exhausted error is returned after exactly
\* MaxAttempts passes of the loop, whatever the state the last pass left,
\* LoggedIn included; LoggedIn reached in an earlier pass is reported as Ok.
C33_ExhaustedAfterMaxAttempts ==
    [][(pc = "loop" /\ pc' = "idle" /\ error' = "MaxLoginAttempts")
         => (attempts = MaxAttempts /\ login_state' = login_state)]_vars


\* C34: one call to login performs at most 6 SRP runs, the first and at most
\* 5 more, and invokes the 2FA callback at most 5 times.
C34_RunsAndCallbacksBounded ==
    /\ srp_runs <= 1 + MaxAttempts \div 2
    /\ callbacks <= MaxAttempts \div 2

C34_Witness ==
    /\ pc = "idle" /\ result = "Err" /\ error = "MaxLoginAttempts"
    /\ srp_runs = 6 /\ callbacks = 5


\* The positions of login inside each of its sub-operations
InSrp == pc \in {"inner_anisette", "inner_init", "inner_complete"}
InDevice2FA == pc \in {"td_anisette", "td_request", "td_callback", "td_submit"}
InSms2FA == pc \in {"sms_anisette", "sms_request", "sms_callback", "sms_submit"}

\* C35: when login returns the error of a sub-operation the login state is
\* the one in which the sub-operation was started: a failed SRP run leaves
\* the state it found (NeedsLogin for a re-login), a failed 2FA sub-flow
\* leaves NeedsDevice2FA or NeedsSMS2FA, a missing PET leaves NeedsExtraStep.
C35_ErrorKeepsState ==
    /\ [][(pc # "idle" /\ pc' = "idle" /\ result' = "Err" /\ error' # "MaxLoginAttempts")
            => (/\ login_state' = login_state
                /\ InSrp \/ InDevice2FA \/ InSms2FA \/ pc = "loop"
                /\ InDevice2FA => login_state = NeedsDevice2FA
                /\ InSms2FA => login_state = NeedsSMS2FA
                /\ pc = "loop" => (/\ login_state.tag = "NeedsExtraStep"
                                   /\ error' = "ExtraStepRequired"))]_vars
    /\ [][(InSrp /\ InSrp') => login_state' = login_state]_vars
    /\ []((InSrp /\ srp_runs >= 2) => login_state = NeedsLogin)

C35_Witness ==
    /\ pc = "idle" /\ result = "Err" /\ error = "NegotiationFailed"
    /\ login_state = LoggedIn /\ srp_runs = 1


\* C36 as stated: get_app_token on an account whose SPD is absent has no
\* effect besides returning the error: no request is sent, the anisette
\* generator included, and the anisette cache, the SPD and the login state
\* are unchanged.
C36_NoEffectWithoutSpd ==
    [][(GetAppToken /\ spd = None)
         => (/\ call'.result = "Err" /\ ~call'.sent
             /\ data' = data /\ spd' = spd /\ login_state' = login_state)]_vars

\* What does hold: without an SPD get_app_token sends no GrandSlam request and
\* leaves the SPD and the login state alone, but it has asked the anisette
\* generator first, whose cache may have been replaced by a new snapshot.
C36_NoGsaRequestWithoutSpd ==
    [][(GetAppToken /\ spd = None)
         => (/\ call'.result = "Err" /\ ~call'.sent
             /\ call'.error \in {"Anisette", "NotLoggedIn"}
             /\ spd' = spd /\ login_state' = login_state
             /\ data' # data => (call'.error = "NotLoggedIn" /\ data' # None))]_vars


\* C37: tasks that call get_anisette_data and get_client_info on generators
\* sharing one provider do not deadlock: a task that waits for the write
\* guard holds no read guard, a task holds a guard only inside the part of a
\* call that uses the provider, so that every return, the errors included,
\* has released it, and every call that has started returns.
C37_NoDeadlock ==
    /\ [](\A t \in Tasks :
            /\ gpc[t] \in {"want_write", "want_read", "want_read_again"}
                  => (t \notin readers /\ writer # Some(t))
            /\ t \in readers <=> gpc[t] \in {"check", "fetch"}
            /\ writer = Some(t) <=> (gpc[t] = "provision" \/ ipc[t] \in {"ensure", "fetch"})
            /\ (writer # None => readers = {}))
    /\ \A t \in Tasks : InCall(t) ~> ~InCall(t)

\* A call returned an error under the write guard, which the other task then
\* acquired for its get_client_info
C37_Witness ==
    /\ glast["t1"].result = "Err" /\ gpc["t1"] = "idle" /\ state = None
    /\ writer = Some("t2") /\ ipc["t2"] = "fetch"
    /\ ilast["t1"] # None


\* C38: get_anisette_data changes the generator's cache only in the step in
\* which it returns Ok, so that a call that returns an error leaves the cache
\* as it found it; and when it returns Ok the cache holds the snapshot that
\* was returned.
C38_CacheFollowsResult ==
    /\ [][\A t \in Tasks :
            (gdata'[t] # gdata[t] /\ gpc[t] # "idle")
                => (gpc'[t] = "idle" /\ glast'[t].result = "Ok")]_vars
    /\ [][\A t \in Tasks :
            (gpc'[t] = "idle" /\ glast'[t] # glast[t] /\ glast'[t].result = "Err")
                => gdata'[t] = gdata[t]]_vars
    /\ [][\A t \in Tasks :
            (gpc'[t] = "idle" /\ glast'[t] # glast[t] /\ glast'[t].result = "Ok")
                => (glast'[t].value # None /\ gdata'[t] = glast'[t].value)]_vars

\* A refresh failed with the old snapshot still cached, and the other task
\* was served a new one
C38_Witness ==
    /\ gpc["t1"] = "idle" /\ glast["t1"].result = "Err" /\ glast["t1"].elapsed # None
    /\ gdata["t1"] = Some(1)
    /\ gpc["t2"] = "idle" /\ glast["t2"].result = "Ok" /\ ~glast["t2"].cached
    /\ gdata["t2"] = Some(2) /\ glast["t2"].value = Some(2)


\* C39 as stated: a CSR submission that fails otherwise than with developer
\* error 7460 makes request_certificate return the error at once, and no CSR
\* is submitted after it.
C39_FailureReturned ==
    /\ []((cert # None /\ cert[1].transient > 0)
             => (cert[1].pc = "done" /\ cert[1].result = "Err"))
    /\ [][(cert # None /\ cert[1].transient > 0)
             => cert'[1].requests = cert[1].requests]_vars

\* What does hold: a failure that is not a DeveloperError is dropped and the
\* loop goes on to its next pass, which submits the CSR again while tries are
\* left; the call can still end in a certificate.
C39_OtherFailuresRetried ==
    [][(cert # None /\ cert'[1].transient > cert[1].transient)
         => (cert'[1].pc = "submit" /\ cert'[1].result = "none")]_vars


\* C40 as stated: every revocation that error 7460 triggered is followed by
\* another submission of the CSR before request_certificate returns: when
\* revoke_others has revoked and the loop is resumed, a pass is left.
C40_RevocationThenSubmission ==
    [][(cert # None /\ cert[1].pc = "revoke" /\ cert'[1].revoked > cert[1].revoked)
         => (cert'[1].pc = "submit" /\ tries_left(cert'[1].i))]_vars

\* What does hold: a revocation made in one of the first three passes is
\* followed by a submission; one made in the fourth pass is followed by the
\* return of the max-attempts error.
C40_RevocationThenSubmissionOrLimit ==
    [][(cert # None /\ cert[1].pc = "submit" /\ cert[1].revoked > 0
          /\ cert[1].requests = cert[1].refused + cert[1].transient)
         => IF tries_left(cert[1].i)
            THEN cert'[1].requests = cert[1].requests + 1
            ELSE (cert'[1].pc = "done" /\ cert'[1].result = "MaxAttempts"
                  /\ cert'[1].requests = cert[1].requests)]_vars

====
